---- MODULE Spec2Model ----
(***************************************************************************)
(* Retirement projection engine of the financial-advisory backend:         *)
(*   backend/app/api/services/retirement_functions.py                      *)
(*   backend/app/api/services/utils_calculation_functions.py               *)
(*   backend/app/config.py                                                 *)
(*                                                                         *)
(* Decimal and float quantities are exact rationals [n |-> num, d |-> den] *)
(* in lowest terms.  Within the input sets below every Decimal operation   *)
(* of the code is exact at the default 28-digit context, except division   *)
(* by 12, whose 28th-digit rounding is not modelled.  float(x) at the      *)
(* response boundary is a rounding to a binary grid (ToFloat); the float   *)
(* arithmetic of calculate_financial_metrics is exact up to its round().   *)
(***************************************************************************)
EXTENDS Integers, Sequences, FiniteSets, TLC

VARIABLES settings, args, frame, result, calc

vars == <<settings, args, frame, result, calc>>

-----------------------------------------------------------------------------
(* Exact rational arithmetic                                               *)

Abs(i) == IF i < 0 THEN -i ELSE i

RECURSIVE GCD(_, _)
GCD(a, b) == IF b = 0 THEN a ELSE GCD(b, a % b)

Q(n, d) ==
    LET g == GCD(Abs(n), Abs(d))
        s == IF d < 0 THEN -1 ELSE 1
    IN  [n |-> s * (n \div g), d |-> s * (d \div g)]

Int2Q(i) == [n |-> i, d |-> 1]

Zero == Int2Q(0)

One == Int2Q(1)

LCM(a, b) == (a \div GCD(a, b)) * b

RAdd(x, y) ==
    LET l == LCM(x.d, y.d)
    IN  Q(x.n * (l \div x.d) + y.n * (l \div y.d), l)

RNeg(x) == [n |-> -x.n, d |-> x.d]

RSub(x, y) == RAdd(x, RNeg(y))

RMul(x, y) ==
    LET g1 == GCD(Abs(x.n), y.d)
        g2 == GCD(Abs(y.n), x.d)
    IN  IF x.n = 0 \/ y.n = 0 THEN Zero
        ELSE [n |-> (x.n \div g1) * (y.n \div g2), d |-> (x.d \div g2) * (y.d \div g1)]

RInv(x) == IF x.n < 0 THEN [n |-> -x.d, d |-> -x.n] ELSE [n |-> x.d, d |-> x.n]

RDiv(x, y) == RMul(x, RInv(y))

RLt(x, y) ==
    LET l == LCM(x.d, y.d)
    IN  x.n * (l \div x.d) < y.n * (l \div y.d)

RLeq(x, y) == x = y \/ RLt(x, y)

RMax(x, y) == IF RLt(x, y) THEN y ELSE x

RMin(x, y) == IF RLt(y, x) THEN y ELSE x

RECURSIVE RPowNat(_, _)
RPowNat(x, k) == IF k = 0 THEN One ELSE RMul(x, RPowNat(x, k - 1))

(* x ** k for an integer k, as Decimal and float compute it *)
RPow(x, k) == IF k >= 0 THEN RPowNat(x, k) ELSE RInv(RPowNat(x, -k))

(* the nearest multiple of 1/grid, ties to even (grid is even) *)
RoundToGrid(x, grid) ==
    LET q  == x.n \div x.d
        r  == x.n % x.d
        f  == (r * grid) \div x.d
        m  == (r * grid) % x.d
        up == 2 * m > x.d \/ (2 * m = x.d /\ f % 2 = 1)
    IN  Q(q * grid + f + (IF up THEN 1 ELSE 0), grid)

(* float(x): the nearest point of a binary grid *)
FloatGrid == 2 ^ 8

ToFloat(x) == RoundToGrid(x, FloatGrid)

(* round(x, ndigits) of a float; a tie that is not a float itself is       *)
(* rounded as the exact tie                                                *)
Round(x, ndigits) == RoundToGrid(x, 10 ^ ndigits)

-----------------------------------------------------------------------------
(* config.py: Settings                                                     *)

ANNUAL_INFLATION_RATE == 3
EXPECTED_ANNUAL_INVESTMENT_RETURN == 7
LIFE_EXPECTANCY == 90
RETIREMENT_INCOME_OAS == 8400
RETIREMENT_INCOME_CPP == 15043

Settings ==
    [ ANNUAL_INFLATION_RATE |-> Int2Q(ANNUAL_INFLATION_RATE),
      EXPECTED_ANNUAL_INVESTMENT_RETURN |-> Int2Q(EXPECTED_ANNUAL_INVESTMENT_RETURN),
      RETIREMENT_LIFESTYLE_FACTOR |-> Q(7, 10),
      LIFE_EXPECTANCY |-> LIFE_EXPECTANCY,
      WITHDRAWAL_RATE |-> Q(4, 100),
      RETIREMENT_INCOME_OAS |-> Int2Q(RETIREMENT_INCOME_OAS),
      RETIREMENT_INCOME_CPP |-> Int2Q(RETIREMENT_INCOME_CPP) ]

-----------------------------------------------------------------------------
(* Compound growth primitives                                              *)

(* retirement_functions.py:148, the Decimal definition (shadowed at import *)
(* time by the definition at line 540)                                     *)
future_value_decimal(current_amount, real_growth_rate, years) ==
    IF years <= 0 THEN current_amount
    ELSE RMul(current_amount, RPow(RAdd(One, real_growth_rate), years))

(* the mutant drops the years <= 0 guard *)
future_value_unguarded(current_amount, real_growth_rate, years) ==
    RMul(current_amount, RPow(RAdd(One, real_growth_rate), years))

(* retirement_functions.py:540, the definition the module's callers get *)
future_value(current_amount, real_growth_rate, years) ==
    IF years <= 0 THEN current_amount
    ELSE RMul(current_amount, RPow(RAdd(One, real_growth_rate), years))

(* utils_calculation_functions.py:29 *)
future_value_dec(current_amount, real_growth_rate, years) ==
    IF years <= 0 THEN current_amount
    ELSE RMul(current_amount, RPow(RAdd(One, real_growth_rate), years))

(* for _ in range(years): projected = projected * (1 + rate) + annual_savings *)
RECURSIVE GrowthLoop(_, _, _, _)
GrowthLoop(projected, annual_savings, real_growth_rate, iterations) ==
    IF iterations <= 0 THEN projected
    ELSE GrowthLoop(RAdd(RMul(projected, RAdd(One, real_growth_rate)), annual_savings),
                    annual_savings, real_growth_rate, iterations - 1)

(* the mutant takes the contribution out of the balance each year *)
calculate_future_savings_withdrawing(current_savings, annual_savings, real_growth_rate, years) ==
    GrowthLoop(current_savings, RNeg(annual_savings), real_growth_rate, years)

(* the mutant runs the loop body once more than range(years) does *)
calculate_future_savings_extra_year(current_savings, annual_savings, real_growth_rate, years) ==
    GrowthLoop(current_savings, annual_savings, real_growth_rate, years + 1)

(* retirement_functions.py:550, the definition the module's callers get *)
calculate_future_savings(current_savings, annual_savings, real_growth_rate, years) ==
    GrowthLoop(current_savings, annual_savings, real_growth_rate, years)

(* retirement_functions.py:157, the Decimal definition (shadowed at import *)
(* time by the definition at line 550)                                     *)
calculate_future_savings_decimal(current_savings, annual_savings, real_growth_rate, years) ==
    GrowthLoop(current_savings, annual_savings, real_growth_rate, years)

(* utils_calculation_functions.py:48 *)
calculate_future_savings_dec(current_savings, annual_savings, real_growth_rate, years) ==
    GrowthLoop(current_savings, annual_savings, real_growth_rate, years)

(* utils_calculation_functions.py:106, the closed form of the scenario path *)
calculate_projected_savings(current_savings, monthly_contribution, annual_return_rate, years) ==
    LET monthly_rate == RDiv(annual_return_rate, Int2Q(12))
        months == years * 12
        future_savings ==
            RMul(current_savings, RPow(RAdd(One, annual_return_rate), years))
        contribution_future ==
            IF RLt(Zero, monthly_rate)
            THEN RDiv(RMul(monthly_contribution,
                           RSub(RPow(RAdd(One, monthly_rate), months), One)),
                      monthly_rate)
            ELSE RMul(monthly_contribution, Int2Q(months))
    IN  RAdd(future_savings, contribution_future)

-----------------------------------------------------------------------------
(* Tax model                                                               *)

(* float('inf'), the upper bound of the last bracket *)
Inf == -1

(* the mutant leaves the income between 55867 and 60000 in no bracket *)
tax_brackets_gapped ==
    << <<0, 55867, Q(15, 100)>>,
       <<60000, 111733, Q(205, 1000)>>,
       <<111733, 173205, Q(26, 100)>>,
       <<173205, 246752, Q(29, 100)>>,
       <<246752, Inf, Q(33, 100)>> >>

tax_brackets ==
    << <<0, 55867, Q(15, 100)>>,
       <<55867, 111733, Q(205, 1000)>>,
       <<111733, 173205, Q(26, 100)>>,
       <<173205, 246752, Q(29, 100)>>,
       <<246752, Inf, Q(33, 100)>> >>

(* the mutant taxes in every bracket all the income above its lower bound *)
RECURSIVE TaxLoop_whole_slice(_, _, _)
TaxLoop_whole_slice(annual_income, i, tax_payable) ==
    IF i > Len(tax_brackets) THEN tax_payable
    ELSE LET lower == Int2Q(tax_brackets[i][1])
             rate  == tax_brackets[i][3]
         IN  IF RLt(lower, annual_income)
             THEN TaxLoop_whole_slice(annual_income, i + 1,
                      RAdd(tax_payable, RMul(RSub(annual_income, lower), rate)))
             ELSE tax_payable

(* the for loop over tax_brackets from bracket i on, with its break *)
RECURSIVE TaxLoop(_, _, _)
TaxLoop(annual_income, i, tax_payable) ==
    IF i > Len(tax_brackets) THEN tax_payable
    ELSE LET lower == Int2Q(tax_brackets[i][1])
             upper == tax_brackets[i][2]
             rate  == tax_brackets[i][3]
         IN  IF RLt(lower, annual_income)
             THEN LET slice == RSub(annual_income, lower)
                      taxable_amount ==
                          IF upper = Inf THEN slice
                          ELSE RMin(slice, RSub(Int2Q(upper), lower))
                  IN  TaxLoop(annual_income, i + 1,
                              RAdd(tax_payable, RMul(taxable_amount, rate)))
             ELSE tax_payable

calculate_after_tax_income(monthly_income) ==
    LET annual_income == RMul(monthly_income, Int2Q(12))
        tax_payable == TaxLoop(annual_income, 1, Zero)
        after_tax_annual == RSub(annual_income, tax_payable)
    IN  RDiv(after_tax_annual, Int2Q(12))

(* utils_calculation_functions.py:74-104: the same table (lines 87-93) and *)
(* the same loop                                                           *)
calculate_after_tax_income_utils(monthly_income) ==
    LET annual_income == RMul(monthly_income, Int2Q(12))
        tax_payable == TaxLoop(annual_income, 1, Zero)
        after_tax_annual == RSub(annual_income, tax_payable)
    IN  RDiv(after_tax_annual, Int2Q(12))

-----------------------------------------------------------------------------
(* calculate_current_retirement_plan (retirement_functions.py:198-307)     *)

AGE_CEILING == 90

PlanFn == "calculate_current_retirement_plan"

Unbound == << >>

Bound(v) == <<v>>

ValueOf(b) == b[1]

(* Decimal(str(v)) of an input number *)
Dec(v) == Int2Q(v)

lifestyle_map(desired_lifestyle, default_lifestyle_factor) ==
    CASE desired_lifestyle = "frugal"      -> Q(6, 10)
      [] desired_lifestyle = "moderate"    -> Q(7, 10)
      [] desired_lifestyle = "comfortable" -> Q(8, 10)
      [] desired_lifestyle = "lavish"      -> Q(9, 10)
      [] OTHER                             -> default_lifestyle_factor

(* lines 204-242: the locals after the set-up, before the while loop *)
PlanLocals(s, user_data) ==
    LET monthly_savings == Dec(user_data.financial.monthly_savings)
        after_tax_monthly_savings == calculate_after_tax_income(monthly_savings)
        current_cash == Dec(user_data.financial.cash_holdings)
        current_investments ==
            RAdd(RAdd(Dec(user_data.retirement.rrsp_savings),
                      Dec(user_data.retirement.tfsa_savings)),
                 Dec(user_data.financial.investment_holdings))
    IN  [ pc |-> "loop",
          fn |-> PlanFn,
          inflation_rate |-> RDiv(s.ANNUAL_INFLATION_RATE, Int2Q(100)),
          expected_return |-> RDiv(s.EXPECTED_ANNUAL_INVESTMENT_RETURN, Int2Q(100)),
          withdrawal_rate |-> s.WITHDRAWAL_RATE,
          life_expectancy |-> s.LIFE_EXPECTANCY,
          cpp_income |-> s.RETIREMENT_INCOME_CPP,
          oas_income |-> s.RETIREMENT_INCOME_OAS,
          monthly_income |-> Dec(user_data.financial.monthly_income),
          monthly_expenses |-> Dec(user_data.financial.monthly_expenses),
          after_tax_monthly_savings |-> after_tax_monthly_savings,
          annual_savings |-> RMul(after_tax_monthly_savings, Int2Q(12)),
          current_cash |-> current_cash,
          current_investments |-> current_investments,
          current_age |-> user_data.profile.age,
          lifestyle_factor |->
              lifestyle_map(user_data.retirement.desired_retirement_lifestyle,
                            s.RETIREMENT_LIFESTYLE_FACTOR),
          retirement_age |-> user_data.profile.age,
          found_retirement_age |-> FALSE,
          feasible_projected_savings |-> RAdd(current_cash, current_investments),
          feasible_required_savings |-> Zero,
          years_until_retirement |-> Unbound,
          total_government_benefits |-> Unbound,
          examined |-> << >> ]

(* lines 249-260 *)
ProjectedAssets(f, years_until_retirement) ==
    LET projected_cash ==
            future_value(f.current_cash, f.inflation_rate, years_until_retirement)
        projected_investments ==
            calculate_future_savings(f.current_investments, f.annual_savings,
                                     f.expected_return, years_until_retirement)
    IN  RAdd(projected_cash, projected_investments)

(* the mutant leaves the OAS amount out of the benefits *)
GovernmentBenefits_cpp_only(f, years_until_retirement) ==
    future_value(f.cpp_income, f.inflation_rate, years_until_retirement)

(* lines 262-264 *)
GovernmentBenefits(f, years_until_retirement) ==
    RAdd(future_value(f.cpp_income, f.inflation_rate, years_until_retirement),
         future_value(f.oas_income, f.inflation_rate, years_until_retirement))

(* lines 266-268 *)
RequiredSavings(f, years_until_retirement) ==
    LET annual_expenses_future ==
            RMul(RMul(f.monthly_expenses, Int2Q(12)),
                 RPow(RAdd(One, f.inflation_rate), years_until_retirement))
        annual_retirement_income_needed ==
            RMul(annual_expenses_future, f.lifestyle_factor)
    IN  RDiv(annual_retirement_income_needed, f.withdrawal_rate)

(* the mutant tests > where the code tests >= *)
IsFeasible_strict(total_projected_assets, required_savings) ==
    RLt(required_savings, total_projected_assets)

(* the mutant forgets retirement_age += 1 *)
NextCandidate_stuck(retirement_age) == retirement_age

(* line 276 *)
NextCandidate(retirement_age) == retirement_age + 1

(* line 270: the feasibility test of one candidate age *)
IsFeasible(total_projected_assets, required_savings) ==
    RLeq(required_savings, total_projected_assets)

(* lines 245-276: the loop body for the candidate age f.retirement_age *)
PlanBody(f) ==
    LET y == f.retirement_age - f.current_age
        g == [f EXCEPT !.years_until_retirement = Bound(y)]
    IN  IF y < 0 THEN [g EXCEPT !.pc = "after"]
        ELSE LET total_projected_assets == ProjectedAssets(f, y)
                 required_savings == RequiredSavings(f, y)
                 h == [g EXCEPT !.total_government_benefits =
                                    Bound(GovernmentBenefits(f, y)),
                                !.examined = Append(f.examined, f.retirement_age)]
             IN  IF IsFeasible(total_projected_assets, required_savings)
                 THEN [h EXCEPT !.found_retirement_age = TRUE,
                                !.feasible_projected_savings = total_projected_assets,
                                !.feasible_required_savings = required_savings,
                                !.pc = "after"]
                 ELSE [h EXCEPT !.retirement_age = NextCandidate(f.retirement_age)]

(* line 244: the while condition *)
LoopCondition(f) == f.retirement_age <= AGE_CEILING

(* the mutant reports the difference without the clamp at 0 *)
SavingsGap_unclamped(feasible_required_savings, feasible_projected_savings) ==
    RSub(feasible_required_savings, feasible_projected_savings)

(* line 302 *)
SavingsGap(feasible_required_savings, feasible_projected_savings) ==
    RMax(Zero, RSub(feasible_required_savings, feasible_projected_savings))

(* lines 278-280: the locals once the ceiling was reached without a feasible age *)
PlanAfterLocals(f) ==
    IF f.found_retirement_age THEN f
    ELSE [f EXCEPT !.retirement_age = AGE_CEILING,
                   !.years_until_retirement = Bound(AGE_CEILING - f.current_age)]

(* the mutant reports the difference without the clamp at 0 *)
YearsInRetirement_unclamped(life_expectancy, retirement_age) ==
    life_expectancy - retirement_age

(* line 282 *)
YearsInRetirement(life_expectancy, retirement_age) ==
    IF life_expectancy - retirement_age > 0
    THEN life_expectancy - retirement_age ELSE 0

(* lines 282-307 on the locals g: the response, or the exception of line 283 *)
PlanOutcome(g) ==
    LET years_until_retirement == ValueOf(g.years_until_retirement)
        years_in_retirement == YearsInRetirement(g.life_expectancy, g.retirement_age)
    IN  IF g.total_government_benefits = Unbound
        THEN [status |-> "raised", error |-> "UnboundLocalError"]
        ELSE LET annual_government_income == ValueOf(g.total_government_benefits)
                 annual_savings_income ==
                     RMul(g.feasible_projected_savings, g.withdrawal_rate)
                 total_annual_retirement_income ==
                     RAdd(annual_government_income, annual_savings_income)
             IN  [ status |-> "returned",
                   retirement_age |-> g.retirement_age,
                   current_age |-> g.current_age,
                   years_until_retirement |-> years_until_retirement,
                   years_in_retirement |-> years_in_retirement,
                   monthly_income |-> ToFloat(g.monthly_income),
                   monthly_expenses |-> ToFloat(g.monthly_expenses),
                   current_savings |->
                       ToFloat(RAdd(g.current_cash, g.current_investments)),
                   monthly_contribution |-> ToFloat(g.after_tax_monthly_savings),
                   projected_savings |-> ToFloat(g.feasible_projected_savings),
                   required_savings |-> ToFloat(g.feasible_required_savings),
                   savings_gap |->
                       ToFloat(SavingsGap(g.feasible_required_savings,
                                          g.feasible_projected_savings)),
                   retirement_income |->
                       ToFloat(RDiv(total_annual_retirement_income, Int2Q(12))),
                   retirement_expenses |->
                       ToFloat(RMul(g.monthly_expenses,
                                    RPow(RAdd(One, g.inflation_rate),
                                         years_until_retirement))),
                   government_benefits |->
                       ToFloat(RDiv(annual_government_income, Int2Q(12))),
                   savings_income |->
                       ToFloat(RDiv(annual_savings_income, Int2Q(12))) ]

Idle == [pc |-> "idle"]

NoResult == [status |-> "none"]

NoArgs == [none |-> TRUE]

(* the mutant stores the call's lifestyle factor in the module's settings *)
PlanStart_writes_settings(p, user_data) ==
    /\ frame[p].pc = "idle"
    /\ args' = [args EXCEPT ![p] = user_data]
    /\ frame' = [frame EXCEPT ![p] = PlanLocals(settings, args'[p])]
    /\ settings' = [settings EXCEPT !.RETIREMENT_LIFESTYLE_FACTOR = frame'[p].lifestyle_factor]
    /\ UNCHANGED <<result, calc>>

(* the call: the argument is bound, the set-up runs *)
PlanStart(p, user_data) ==
    /\ frame[p].pc = "idle"
    /\ args' = [args EXCEPT ![p] = user_data]
    /\ frame' = [frame EXCEPT ![p] = PlanLocals(settings, args'[p])]
    /\ UNCHANGED <<settings, result, calc>>

(* the mutant keeps the candidate age in a module-level variable that     *)
(* every call in its loop reads and writes                                 *)
PlanIter_shared_candidate(p) ==
    /\ frame[p].pc = "loop"
    /\ frame[p].fn = PlanFn
    /\ LoopCondition(frame[p])
    /\ frame' = [q \in DOMAIN frame |->
                    IF q = p THEN PlanBody(frame[p])
                    ELSE IF frame[q].pc = "loop" /\ frame[q].fn = PlanFn
                         THEN [frame[q] EXCEPT !.retirement_age =
                                                   PlanBody(frame[p]).retirement_age]
                         ELSE frame[q]]
    /\ UNCHANGED <<settings, args, result, calc>>

(* one iteration of the while loop *)
PlanIter(p) ==
    /\ frame[p].pc = "loop"
    /\ frame[p].fn = PlanFn
    /\ LoopCondition(frame[p])
    /\ frame' = [frame EXCEPT ![p] = PlanBody(frame[p])]
    /\ UNCHANGED <<settings, args, result, calc>>

(* the while condition fails *)
PlanLoopExit(p) ==
    /\ frame[p].pc = "loop"
    /\ frame[p].fn = PlanFn
    /\ ~LoopCondition(frame[p])
    /\ frame' = [frame EXCEPT ![p].pc = "after"]
    /\ UNCHANGED <<settings, args, result, calc>>

(* lines 278-307: the response is built and returned, or the call raises *)
PlanFinish(p) ==
    /\ frame[p].pc = "after"
    /\ frame[p].fn = PlanFn
    /\ frame' = [frame EXCEPT ![p] = [PlanAfterLocals(frame[p]) EXCEPT !.pc = "done"]]
    /\ result' = [result EXCEPT ![p] = PlanOutcome(frame'[p])]
    /\ UNCHANGED <<settings, args, calc>>

(* the whole call, from the locals f on, with no other call beside it *)
RECURSIVE PlanRun(_)
PlanRun(f) ==
    IF f.pc = "loop"
    THEN IF LoopCondition(f) THEN PlanRun(PlanBody(f))
         ELSE PlanRun([f EXCEPT !.pc = "after"])
    ELSE PlanOutcome(PlanAfterLocals(f))

(* the caller takes the response; the frame and the argument are dropped *)
Release(p) ==
    /\ frame[p].pc = "done"
    /\ frame' = [frame EXCEPT ![p] = Idle]
    /\ args' = [args EXCEPT ![p] = NoArgs]
    /\ result' = [result EXCEPT ![p] = NoResult]
    /\ UNCHANGED <<settings, calc>>

-----------------------------------------------------------------------------
(* calculate_retirement_what_if (retirement_functions.py:373-534)          *)

WhatIfFn == "calculate_retirement_what_if"

(* a float of the request written as the decimal literal m * 10^e *)
Lit(m, e) == [m |-> m, e |-> e]

(* Decimal(str(x)) of such a float *)
DecLit(x) == IF x.e >= 0 THEN Int2Q(x.m * 10 ^ x.e) ELSE Q(x.m, 10 ^ (-x.e))

(* lines 397-398: a rate above 1 is taken to be a percentage *)
NormalizeRate(rate_raw) ==
    IF RLt(One, rate_raw) THEN RDiv(rate_raw, Int2Q(100)) ELSE rate_raw

(* line 428 *)
CURRENT_YEAR == 2023

(* lines 456, 467, 468 *)
WHAT_IF_WITHDRAWAL_RATE == Q(4, 100)
CPP_MONTHLY == 1200
OAS_MONTHLY == 615

(* lines 393-428: the locals before the for loop; the division of line 422 *)
(* raises when 1 + inflation_rate is zero                                  *)
WhatIfLocals(scenario) ==
    LET expected_return_rate == NormalizeRate(DecLit(scenario.expected_return_rate))
        inflation_rate == NormalizeRate(DecLit(scenario.inflation_rate))
        current_savings == Dec(scenario.current_savings)
        monthly_contribution == Dec(scenario.monthly_contribution)
    IN  IF RAdd(One, inflation_rate) = Zero
        THEN [pc |-> "after", fn |-> WhatIfFn, exception |-> "DivisionByZero"]
        ELSE [ pc |-> "loop",
               fn |-> WhatIfFn,
               exception |-> "none",
               expected_return_rate |-> expected_return_rate,
               inflation_rate |-> inflation_rate,
               years_until_retirement |->
                   scenario.retirement_age - scenario.current_age,
               retirement_duration |->
                   scenario.life_expectancy - scenario.retirement_age,
               current_savings |-> current_savings,
               monthly_contribution |-> monthly_contribution,
               annual_contribution |-> RMul(monthly_contribution, Int2Q(12)),
               real_return_rate |->
                   RSub(RDiv(RAdd(One, expected_return_rate),
                             RAdd(One, inflation_rate)), One),
               projected_savings |-> current_savings,
               savings_by_year |-> << >>,
               current_year |-> CURRENT_YEAR,
               year |-> 0 ]

(* lines 434-437, 447-450: one entry of savings_by_year *)
YearEntry(year, projected_savings) ==
    [year |-> year, amount |-> ToFloat(projected_savings)]

(* lines 432-444: the loop body for the index f.year *)
WhatIfBody(f) ==
    LET interest == RMul(f.projected_savings, f.real_return_rate)
    IN  [f EXCEPT !.savings_by_year =
                      Append(f.savings_by_year,
                             YearEntry(f.current_year + f.year, f.projected_savings)),
                  !.projected_savings =
                      RAdd(RAdd(f.projected_savings, interest), f.annual_contribution),
                  !.year = f.year + 1]

(* line 432: range(years_until_retirement) has a next index *)
WhatIfLoopCondition(f) == f.year < f.years_until_retirement

HTTP400 == [status |-> "raised", error |-> "HTTPException", status_code |-> 400]

(* lines 486-503: the additional monthly contribution, or the division by  *)
(* zero of line 493 or 502                                                 *)
ContributionNeeded(f, savings_gap) ==
    LET years == Int2Q(f.years_until_retirement)
        additional_savings_needed ==
            RDiv(RMul(savings_gap, Int2Q(12)), WHAT_IF_WITHDRAWAL_RATE)
        factor ==
            RDiv(RSub(RPow(RAdd(One, f.real_return_rate), f.years_until_retirement),
                      One),
                 f.real_return_rate)
    IN  IF ~RLt(Zero, savings_gap) THEN Bound(Zero)
        ELSE IF RLt(Zero, f.real_return_rate)
             THEN IF RMul(Int2Q(12), factor) = Zero THEN Unbound
                  ELSE Bound(RDiv(additional_savings_needed, RMul(Int2Q(12), factor)))
             ELSE IF RMul(Int2Q(12), years) = Zero THEN Unbound
                  ELSE Bound(RDiv(additional_savings_needed, RMul(Int2Q(12), years)))

(* lines 447-534 on the locals f after the loop: the response, or the      *)
(* HTTPException that the except clause makes of any exception             *)
WhatIfOutcome(f, scenario) ==
    IF f.exception # "none" THEN HTTP400
    ELSE
    LET savings_by_year ==
            Append(f.savings_by_year,
                   YearEntry(f.current_year + f.years_until_retirement,
                             f.projected_savings))
        savings_monthly_income ==
            RDiv(RMul(f.projected_savings, WHAT_IF_WITHDRAWAL_RATE), Int2Q(12))
        govt_monthly_income ==
            IF scenario.include_cpp_oas
            THEN RAdd(Int2Q(CPP_MONTHLY), Int2Q(OAS_MONTHLY)) ELSE Zero
        total_monthly_income == RAdd(savings_monthly_income, govt_monthly_income)
        desired_monthly_income ==
            RDiv(Dec(scenario.desired_retirement_income), Int2Q(12))
        savings_gap == RSub(desired_monthly_income, total_monthly_income)
        monthly_contribution_needed == ContributionNeeded(f, savings_gap)
    IN  IF monthly_contribution_needed = Unbound THEN HTTP400
        ELSE [ status |-> "returned",
               retirement_age |-> scenario.retirement_age,
               total_savings_at_retirement |-> ToFloat(f.projected_savings),
               monthly_retirement_income |-> ToFloat(total_monthly_income),
               savings_gap |-> ToFloat(savings_gap),
               monthly_contribution_needed |->
                   ToFloat(RAdd(f.monthly_contribution,
                                ValueOf(monthly_contribution_needed))),
               years_until_retirement |-> f.years_until_retirement,
               retirement_duration |-> f.retirement_duration,
               savings_by_year |-> savings_by_year,
               monthly_income_breakdown |->
                   [ savings_income |-> ToFloat(savings_monthly_income),
                     government_benefits |-> ToFloat(govt_monthly_income) ] ]

(* the call: the argument is bound, the set-up runs *)
WhatIfStart(p, scenario) ==
    /\ frame[p].pc = "idle"
    /\ args' = [args EXCEPT ![p] = scenario]
    /\ frame' = [frame EXCEPT ![p] = WhatIfLocals(args'[p])]
    /\ UNCHANGED <<settings, result, calc>>

(* one iteration of the for loop *)
WhatIfIter(p) ==
    /\ frame[p].pc = "loop"
    /\ frame[p].fn = WhatIfFn
    /\ WhatIfLoopCondition(frame[p])
    /\ frame' = [frame EXCEPT ![p] = WhatIfBody(frame[p])]
    /\ UNCHANGED <<settings, args, result, calc>>

(* range(years_until_retirement) is exhausted *)
WhatIfLoopExit(p) ==
    /\ frame[p].pc = "loop"
    /\ frame[p].fn = WhatIfFn
    /\ ~WhatIfLoopCondition(frame[p])
    /\ frame' = [frame EXCEPT ![p].pc = "after"]
    /\ UNCHANGED <<settings, args, result, calc>>

(* lines 447-534: the response is built and returned, or the call raises *)
WhatIfFinish(p) ==
    /\ frame[p].pc = "after"
    /\ frame[p].fn = WhatIfFn
    /\ frame' = [frame EXCEPT ![p].pc = "done"]
    /\ result' = [result EXCEPT ![p] = WhatIfOutcome(frame[p], args[p])]
    /\ UNCHANGED <<settings, args, calc>>

(* the whole call, from the locals f on, with no other call beside it *)
RECURSIVE WhatIfRun(_, _)
WhatIfRun(f, scenario) ==
    IF f.pc = "loop"
    THEN IF WhatIfLoopCondition(f) THEN WhatIfRun(WhatIfBody(f), scenario)
         ELSE WhatIfRun([f EXCEPT !.pc = "after"], scenario)
    ELSE WhatIfOutcome(f, scenario)

(* a what-if request *)
Scenario(current_age, retirement_age, life_expectancy, current_savings, monthly_contribution, expected_return_rate, inflation_rate, desired_retirement_income, include_cpp_oas) ==
    [ current_age |-> current_age,
      retirement_age |-> retirement_age,
      life_expectancy |-> life_expectancy,
      current_savings |-> current_savings,
      monthly_contribution |-> monthly_contribution,
      expected_return_rate |-> expected_return_rate,
      inflation_rate |-> inflation_rate,
      desired_retirement_income |-> desired_retirement_income,
      include_cpp_oas |-> include_cpp_oas ]

-----------------------------------------------------------------------------
(* calculate_retirement_what_if (utils_calculation_functions.py:297-383),  *)
(* the second definition of that name; nothing catches what it raises      *)

WhatIfUtilsFn == "utils_calculation_functions.calculate_retirement_what_if"

(* line 349 *)
UTILS_WITHDRAWAL_RATE == Q(4, 100)

(* lines 326-334: the locals before the for loop; the rates are taken as   *)
(* they are given                                                          *)
WhatIfUtilsLocals(scenario) ==
    [ pc |-> "loop",
      fn |-> WhatIfUtilsFn,
      exception |-> "none",
      expected_return_rate |-> DecLit(scenario.expected_return_rate),
      inflation_rate |-> DecLit(scenario.inflation_rate),
      years_until_retirement |-> scenario.retirement_age - scenario.current_age,
      retirement_duration |-> scenario.life_expectancy - scenario.retirement_age,
      current_savings |-> Dec(scenario.current_savings),
      monthly_contribution |-> Dec(scenario.monthly_contribution),
      projected_savings |-> Dec(scenario.current_savings),
      savings_by_year |-> << >>,
      current_age |-> scenario.current_age,
      year |-> 0 ]

(* lines 339-345: the loop body for the index f.year *)
WhatIfUtilsBody(f) ==
    LET annual_contribution == RMul(f.monthly_contribution, Int2Q(12))
    IN  [f EXCEPT !.savings_by_year =
                      Append(f.savings_by_year,
                             YearEntry(f.current_age + f.year, f.projected_savings)),
                  !.projected_savings =
                      RAdd(RMul(f.projected_savings,
                                RAdd(One, f.expected_return_rate)),
                           annual_contribution),
                  !.year = f.year + 1]

(* the range without its last index *)
WhatIfUtilsLoopCondition_exclusive(f) == f.year < f.years_until_retirement

(* line 339: range(years_until_retirement + 1) has a next index *)
WhatIfUtilsLoopCondition(f) == f.year < f.years_until_retirement + 1

DecimalException == [status |-> "raised", error |-> "DecimalException"]

(* lines 358-368: the additional monthly contribution *)
UtilsContributionNeeded(f, additional_savings_needed) ==
    IF f.years_until_retirement > 0
    THEN IF RLt(Zero, f.expected_return_rate)
         THEN RDiv(RMul(RDiv(additional_savings_needed,
                             RSub(RPow(RAdd(One, f.expected_return_rate),
                                       f.years_until_retirement),
                                  One)),
                        f.expected_return_rate),
                   Int2Q(12))
         ELSE RDiv(additional_savings_needed,
                   Int2Q(f.years_until_retirement * 12))
    ELSE Zero

(* lines 345-383 on the locals f after the loop: the dict returned, or the *)
(* exception of the division of line 356 by a zero withdrawal rate         *)
WhatIfUtilsOutcome(f, scenario) ==
    LET total_savings_at_retirement == f.projected_savings
        cpp_oas_monthly == Zero
        safe_withdrawal_rate == RSub(UTILS_WITHDRAWAL_RATE, f.inflation_rate)
        monthly_savings_income ==
            RDiv(RMul(total_savings_at_retirement, safe_withdrawal_rate), Int2Q(12))
        total_monthly_income == RAdd(monthly_savings_income, cpp_oas_monthly)
        monthly_income_gap ==
            RSub(Dec(scenario.desired_retirement_income), total_monthly_income)
        additional_savings_needed ==
            RDiv(RMul(monthly_income_gap, Int2Q(12)), safe_withdrawal_rate)
        monthly_contribution_needed ==
            UtilsContributionNeeded(f, additional_savings_needed)
    IN  IF safe_withdrawal_rate = Zero THEN DecimalException
        ELSE [ status |-> "returned",
               retirement_age |-> scenario.retirement_age,
               total_savings_at_retirement |-> ToFloat(total_savings_at_retirement),
               monthly_retirement_income |-> ToFloat(total_monthly_income),
               savings_gap |-> ToFloat(additional_savings_needed),
               monthly_contribution_needed |->
                   ToFloat(RAdd(f.monthly_contribution, monthly_contribution_needed)),
               years_until_retirement |-> f.years_until_retirement,
               retirement_duration |-> f.retirement_duration,
               savings_by_year |-> f.savings_by_year,
               monthly_income_breakdown |->
                   [ savings_income |-> ToFloat(monthly_savings_income),
                     government_benefits |-> ToFloat(cpp_oas_monthly) ] ]

(* the call: the argument is bound, the set-up runs *)
WhatIfUtilsStart(p, scenario) ==
    /\ frame[p].pc = "idle"
    /\ args' = [args EXCEPT ![p] = scenario]
    /\ frame' = [frame EXCEPT ![p] = WhatIfUtilsLocals(args'[p])]
    /\ UNCHANGED <<settings, result, calc>>

(* one iteration of the for loop *)
WhatIfUtilsIter(p) ==
    /\ frame[p].pc = "loop"
    /\ frame[p].fn = WhatIfUtilsFn
    /\ WhatIfUtilsLoopCondition(frame[p])
    /\ frame' = [frame EXCEPT ![p] = WhatIfUtilsBody(frame[p])]
    /\ UNCHANGED <<settings, args, result, calc>>

(* range(years_until_retirement + 1) is exhausted *)
WhatIfUtilsLoopExit(p) ==
    /\ frame[p].pc = "loop"
    /\ frame[p].fn = WhatIfUtilsFn
    /\ ~WhatIfUtilsLoopCondition(frame[p])
    /\ frame' = [frame EXCEPT ![p].pc = "after"]
    /\ UNCHANGED <<settings, args, result, calc>>

(* lines 345-383: the dict is built and returned, or the call raises *)
WhatIfUtilsFinish(p) ==
    /\ frame[p].pc = "after"
    /\ frame[p].fn = WhatIfUtilsFn
    /\ frame' = [frame EXCEPT ![p].pc = "done"]
    /\ result' = [result EXCEPT ![p] = WhatIfUtilsOutcome(frame[p], args[p])]
    /\ UNCHANGED <<settings, args, calc>>

(* the whole call, from the locals f on *)
RECURSIVE WhatIfUtilsRun(_, _)
WhatIfUtilsRun(f, scenario) ==
    IF f.pc = "loop"
    THEN IF WhatIfUtilsLoopCondition(f) THEN WhatIfUtilsRun(WhatIfUtilsBody(f), scenario)
         ELSE WhatIfUtilsRun([f EXCEPT !.pc = "after"], scenario)
    ELSE WhatIfUtilsOutcome(f, scenario)

-----------------------------------------------------------------------------
(* calculate_financial_metrics (utils_calculation_functions.py:385-677)    *)
(* floats are exact rationals; None is the empty tuple and a value v that  *)
(* may be None is <<v>>                                                    *)

MetricsFn == "calculate_financial_metrics"

None == << >>

Some(v) == <<v>>

(* float(x or 1) *)
FloatOrZero_or_one(x) == IF x = None THEN One ELSE Int2Q(x[1])

(* float(x or 0) *)
FloatOrZero(x) == IF x = None THEN Zero ELSE Int2Q(x[1])

(* bool(x) of a float *)
Truthy(x) == x # Zero

(* str.lower() on the investor types and holding names of the inputs *)
Lower(str) ==
    CASE str = "Conservative" -> "conservative"
      [] str = "Balanced"     -> "balanced"
      [] str = "Aggressive Growth" -> "aggressive growth"
      [] str = "VFV"          -> "vfv"
      [] str = "XEQT"         -> "xeqt"
      [] OTHER                -> str

(* sub in str, on lower-cased investor types *)
Contains(str, sub) ==
    \/ str = sub
    \/ str = "aggressive growth" /\ sub \in {"aggressive", "growth"}

(* line 410 *)
DEFAULT_RETIREMENT_AGE == 65

(* line 486: (0.05 / 12) / (1 - (1 + 0.05 / 12) ** -60), to six decimals *)
DEBT_PAYMENT_FACTOR == Q(18871, 1000000)

(* lines 413-430: the locals after the extraction, or the AttributeError   *)
(* of None.lower() at line 430                                             *)
MetricsLocals(profile_data) ==
    IF profile_data.investor_type = None
    THEN [pc |-> "after", fn |-> MetricsFn, exception |-> "AttributeError"]
    ELSE [ pc |-> "after",
           fn |-> MetricsFn,
           exception |-> "none",
           monthly_income |-> FloatOrZero(profile_data.monthly_income),
           monthly_expenses |-> FloatOrZero(profile_data.monthly_expenses),
           cash_holdings |-> FloatOrZero(profile_data.cash_balance),
           investment_holdings_value |-> FloatOrZero(profile_data.investments),
           current_debt |-> FloatOrZero(profile_data.debt),
           age |-> profile_data.age,
           rrsp_savings |-> FloatOrZero(profile_data.rrsp_savings),
           tfsa_savings |-> FloatOrZero(profile_data.tfsa_savings),
           other_retirement |-> FloatOrZero(profile_data.other_retirement_accounts),
           investor_type |-> Lower(profile_data.investor_type[1]) ]

Assessment(status, message) == [status |-> status, message |-> message]

(* lines 444-478 *)
NetWorthAssessment(annual_income, age, net_worth_ratio) ==
    IF ~(RLt(Zero, annual_income) /\ age # None)
    THEN Assessment("Not Available", "Add your income details to see how your net worth compares to benchmarks.")
    ELSE IF age[1] <= 35
    THEN IF RLt(net_worth_ratio, Q(1, 2))
         THEN Assessment("Below Target", "Building your net worth takes time. Focus on reducing debt and increasing savings.")
         ELSE IF RLeq(net_worth_ratio, Q(3, 2))
         THEN Assessment("On Track", "You're on the right path. Continue building your assets and managing liabilities.")
         ELSE Assessment("Above Target", "Excellent start! Your net worth is growing robustly.")
    ELSE IF age[1] <= 50
    THEN IF RLt(net_worth_ratio, Int2Q(2))
         THEN Assessment("Below Target", "Consider strategies to boost your net worth, such as increasing savings and prudent investing.")
         ELSE IF RLeq(net_worth_ratio, Int2Q(5))
         THEN Assessment("On Track", "Good progress! Keep focusing on asset growth and long-term investments.")
         ELSE Assessment("Above Target", "You're ahead of the curve. Consider diversifying investments to sustain growth.")
    ELSE IF RLt(net_worth_ratio, Int2Q(6))
         THEN Assessment("Below Target", "It's important to enhance your net worth before retirement. Seek advice to optimize your financial plan.")
         ELSE IF RLeq(net_worth_ratio, Int2Q(10))
         THEN Assessment("On Track", "You're well-prepared for retirement. Maintain your financial strategies to preserve wealth.")
         ELSE Assessment("Above Target", "Outstanding! Your strong net worth provides substantial retirement security.")

(* lines 491-503 *)
DebtAssessment(debt_to_income_ratio) ==
    IF debt_to_income_ratio = None
    THEN Assessment("Not Available", "Add your income and debt details to see how your debt load compares to recommendations.")
    ELSE IF RLt(Int2Q(36), debt_to_income_ratio[1])
    THEN Assessment("Below Target", "High debt levels can strain your finances. Focus on reducing debt to improve financial flexibility.")
    ELSE IF RLeq(Int2Q(20), debt_to_income_ratio[1])
    THEN Assessment("On Track", "Your debt is manageable. Continue making timely payments to maintain stability.")
    ELSE Assessment("Above Target", "Great job! Low debt enhances your financial freedom and ability to invest.")

(* lines 512-524 *)
EmergencyFundAssessment(emergency_fund_ratio) ==
    IF emergency_fund_ratio = None
    THEN Assessment("Not Available", "Add your expenses and cash balance to see how your emergency fund compares to recommendations.")
    ELSE IF RLt(emergency_fund_ratio[1], Int2Q(3))
    THEN Assessment("Below Target", "Your emergency fund is below the recommended level. Prioritize increasing your savings to cover unexpected expenses.")
    ELSE IF RLeq(emergency_fund_ratio[1], Int2Q(6))
    THEN Assessment("On Track", "You're well-prepared for unforeseen events. Continue maintaining this safety net.")
    ELSE Assessment("Above Target", "Excellent! Consider allocating excess funds to investments for potential growth.")

(* lines 532-544 *)
SavingsAssessment(savings_rate) ==
    IF savings_rate = None
    THEN Assessment("Not Available", "Add your income and expenses to see how your savings rate compares to recommendations.")
    ELSE IF RLt(savings_rate[1], Int2Q(10))
    THEN Assessment("Below Target", "Increasing your savings rate is crucial. Start with small, consistent contributions to build the habit.")
    ELSE IF RLt(savings_rate[1], Int2Q(20))
    THEN Assessment("On Track", "You're on the right track. Aim to gradually increase your savings to reach the recommended level.")
    ELSE Assessment("Above Target", "Excellent! A high savings rate positions you well for future financial goals.")

(* lines 590-600: the target of the retirement savings assessment *)
StatusTargetRatio(age) ==
    IF age < 30 THEN 1 ELSE IF age < 40 THEN 3 ELSE IF age < 50 THEN 6
    ELSE IF age < 60 THEN 8 ELSE 10

(* lines 616-623: the target of the retirement readiness score *)
ScoreTargetRatio(age) ==
    IF age < 30 THEN 1 ELSE IF age < 40 THEN 3 ELSE IF age < 50 THEN 6 ELSE 8

(* lines 586-610 *)
RetirementAssessment(retirement_savings_ratio, age) ==
    IF ~(retirement_savings_ratio # None /\ age # None)
    THEN Assessment("Not Available", "Add your income and retirement account details to see how your retirement savings compare to age-based targets.")
    ELSE LET target_ratio == StatusTargetRatio(age[1])
         IN  IF RLt(retirement_savings_ratio[1], Int2Q(target_ratio))
             THEN Assessment("Below Target",
                      "It's important to boost your retirement savings. Consider increasing contributions and reviewing your investment strategy to reach the target of "
                      \o ToString(target_ratio) \o "x annual income by age "
                      \o ToString(age[1]) \o ".")
             ELSE IF RLeq(retirement_savings_ratio[1],
                          RMul(Int2Q(target_ratio), Q(12, 10)))
             THEN Assessment("On Track", "You're on track for a comfortable retirement. Maintain your current savings and investment approach.")
             ELSE Assessment("Above Target", "Outstanding! Your diligent saving provides a strong foundation for retirement.")

(* lines 613-627 *)
RetirementReadinessScore(retirement_savings_ratio, age) ==
    IF age # None /\ age # Some(0) /\ retirement_savings_ratio # None
    THEN LET target_ratio == ScoreTargetRatio(age[1])
             ratio_score ==
                 RMul(RMin(RDiv(retirement_savings_ratio[1], Int2Q(target_ratio)), One),
                      Int2Q(10))
         IN  Some(Round(ratio_score, 1))
    ELSE None

(* lines 549-550: the sum over the holdings from the i-th on *)
RECURSIVE PortfolioSum(_, _)
PortfolioSum(investment_holdings, i) ==
    IF i > Len(investment_holdings) THEN Zero
    ELSE RAdd(RMul(FloatOrZero(investment_holdings[i].number_of_units),
                   FloatOrZero(investment_holdings[i].average_cost_per_unit)),
              PortfolioSum(investment_holdings, i + 1))

(* lines 555-562 *)
InvestmentGrowth(investor_type) ==
    IF investor_type = "" THEN None
    ELSE IF Contains(investor_type, "conservative") THEN Some(Int2Q(4))
    ELSE IF Contains(investor_type, "balanced") \/ Contains(investor_type, "moderate")
    THEN Some(Int2Q(6))
    ELSE IF Contains(investor_type, "growth") \/ Contains(investor_type, "aggressive")
    THEN Some(Int2Q(8))
    ELSE None

(* the score without its cap *)
InvestmentDiversityScore_uncapped(investment_holdings) ==
    IF investment_holdings = << >> THEN None
    ELSE Some(Cardinality({Lower(investment_holdings[i].holding_name[1]) :
                              i \in DOMAIN investment_holdings}))

(* lines 566-573 *)
InvestmentDiversityScore(investment_holdings) ==
    IF investment_holdings = << >> THEN None
    ELSE LET unique_holdings ==
                 Cardinality({Lower(investment_holdings[i].holding_name[1]) :
                                 i \in DOMAIN investment_holdings})
         IN  IF unique_holdings >= 10 THEN Some(10)
             ELSE IF unique_holdings > 0
             THEN Some(IF unique_holdings < 10 THEN unique_holdings ELSE 10)
             ELSE None

(* lines 679-694; the multiplication sign of the texts is written x *)
get_net_worth_benchmark(age) ==
    IF age <= 35 THEN "0.5-1.5x annual salary"
    ELSE IF age <= 50 THEN "2-5x annual salary"
    ELSE "6-10x annual salary"

(* lines 696-715 *)
get_retirement_benchmark(age) ==
    IF age < 30 THEN "1x annual income"
    ELSE IF age < 40 THEN "3x annual income"
    ELSE IF age < 50 THEN "6x annual income"
    ELSE IF age < 60 THEN "8x annual income"
    ELSE "10x annual income"

AttributeError == [status |-> "raised", error |-> "AttributeError"]

(* lines 434-677 on the locals f: the metrics, or the AttributeError of    *)
(* None.lower() at line 430 or 569                                         *)
MetricsOutcome(f, investment_holdings) ==
    IF f.exception # "none" THEN AttributeError
    ELSE IF \E i \in DOMAIN investment_holdings :
                investment_holdings[i].holding_name = None
    THEN AttributeError
    ELSE
    LET annual_income ==
            IF Truthy(f.monthly_income) THEN RMul(f.monthly_income, Int2Q(12)) ELSE Zero
        total_assets ==
            RAdd(RAdd(RAdd(RAdd(f.cash_holdings, f.investment_holdings_value),
                           f.rrsp_savings), f.tfsa_savings), f.other_retirement)
        net_worth == RSub(total_assets, f.current_debt)
        net_worth_ratio ==
            IF Truthy(annual_income) THEN RDiv(net_worth, annual_income) ELSE Zero
        net_worth_assessment == NetWorthAssessment(annual_income, f.age, net_worth_ratio)
        monthly_cash_flow ==
            IF Truthy(f.monthly_income) /\ Truthy(f.monthly_expenses)
            THEN Some(RSub(f.monthly_income, f.monthly_expenses)) ELSE None
        monthly_debt_payment ==
            IF RLt(Zero, f.current_debt)
            THEN RMul(f.current_debt, DEBT_PAYMENT_FACTOR) ELSE Zero
        debt_to_income_ratio ==
            IF Truthy(f.monthly_income)
            THEN Some(Round(RMul(RDiv(monthly_debt_payment, f.monthly_income),
                                 Int2Q(100)), 1))
            ELSE None
        debt_assessment == DebtAssessment(debt_to_income_ratio)
        emergency_fund_ratio ==
            IF Truthy(f.monthly_expenses)
            THEN Some(Round(RDiv(f.cash_holdings, f.monthly_expenses), 1)) ELSE None
        ef_assessment == EmergencyFundAssessment(emergency_fund_ratio)
        monthly_savings ==
            IF Truthy(f.monthly_income) /\ Truthy(f.monthly_expenses)
            THEN Some(RSub(f.monthly_income, f.monthly_expenses)) ELSE None
        savings_rate ==
            IF monthly_savings # None /\ Truthy(monthly_savings[1])
               /\ Truthy(f.monthly_income)
            THEN Some(Round(RMul(RDiv(monthly_savings[1], f.monthly_income),
                                 Int2Q(100)), 1))
            ELSE None
        savings_assessment == SavingsAssessment(savings_rate)
        portfolio_value ==
            IF investment_holdings # << >> THEN PortfolioSum(investment_holdings, 1)
            ELSE Zero
        total_investments ==
            IF Truthy(f.investment_holdings_value) \/ Truthy(portfolio_value)
            THEN Some(RMax(f.investment_holdings_value, portfolio_value)) ELSE None
        total_retirement_savings ==
            RAdd(RAdd(f.rrsp_savings, f.tfsa_savings), f.other_retirement)
        retirement_savings_ratio ==
            IF Truthy(f.monthly_income)
            THEN Some(Round(RDiv(total_retirement_savings,
                                 RMul(f.monthly_income, Int2Q(12))), 1))
            ELSE None
        retirement_assessment == RetirementAssessment(retirement_savings_ratio, f.age)
        has_age == f.age # None /\ f.age # Some(0)
    IN  [ status |-> "returned",
          net_worth |-> Round(net_worth, 2),
          net_worth_status |-> net_worth_assessment.status,
          net_worth_message |-> net_worth_assessment.message,
          net_worth_benchmark |->
              IF has_age THEN get_net_worth_benchmark(f.age[1]) ELSE "Not available",
          monthly_cash_flow |->
              IF monthly_cash_flow # None THEN Some(Round(monthly_cash_flow[1], 2))
              ELSE None,
          debt_to_income_ratio |-> debt_to_income_ratio,
          debt_status |-> debt_assessment.status,
          debt_message |-> debt_assessment.message,
          debt_benchmark |-> "Below 36% of monthly income",
          emergency_fund_ratio |-> emergency_fund_ratio,
          emergency_fund_status |-> ef_assessment.status,
          emergency_fund_message |-> ef_assessment.message,
          emergency_fund_benchmark |-> "3-6 months of expenses",
          savings_rate |-> savings_rate,
          savings_status |-> savings_assessment.status,
          savings_message |-> savings_assessment.message,
          savings_benchmark |-> "At least 20% of income",
          monthly_savings |->
              IF monthly_savings # None THEN Some(Round(monthly_savings[1], 2))
              ELSE None,
          total_investments |->
              IF total_investments # None THEN Some(Round(total_investments[1], 2))
              ELSE None,
          investment_growth |-> InvestmentGrowth(f.investor_type),
          investment_diversity_score |-> InvestmentDiversityScore(investment_holdings),
          retirement_savings_ratio |-> retirement_savings_ratio,
          retirement_status |-> retirement_assessment.status,
          retirement_message |-> retirement_assessment.message,
          retirement_benchmark |->
              IF has_age THEN get_retirement_benchmark(f.age[1]) ELSE "Not available",
          retirement_readiness_score |->
              RetirementReadinessScore(retirement_savings_ratio, f.age),
          years_until_retirement |->
              IF has_age THEN Some(DEFAULT_RETIREMENT_AGE - f.age[1]) ELSE None ]

(* the call: the arguments are bound, lines 407-431 read the profile *)
MetricsStart(p, profile_data, investment_holdings) ==
    /\ frame[p].pc = "idle"
    /\ args' = [args EXCEPT ![p] = [ profile_data |-> profile_data,
                                     investment_holdings |-> investment_holdings ]]
    /\ frame' = [frame EXCEPT ![p] = MetricsLocals(args'[p].profile_data)]
    /\ UNCHANGED <<settings, result, calc>>

(* lines 433-677: the metrics are computed and returned, or the call raises *)
MetricsFinish(p) ==
    /\ frame[p].pc = "after"
    /\ frame[p].fn = MetricsFn
    /\ frame' = [frame EXCEPT ![p].pc = "done"]
    /\ result' = [result EXCEPT ![p] =
                      MetricsOutcome(frame[p], args[p].investment_holdings)]
    /\ UNCHANGED <<settings, args, calc>>

(* the whole call with no other call beside it *)
MetricsRun(profile_data, investment_holdings) ==
    MetricsOutcome(MetricsLocals(profile_data), investment_holdings)

(* a profile row and a holdings row *)
ProfileData(age, income, expenses, cash, investments, debt, rrsp, tfsa, other, investor_type) ==
    [ age |-> age, monthly_income |-> income, monthly_expenses |-> expenses,
      cash_balance |-> cash, investments |-> investments, debt |-> debt,
      rrsp_savings |-> rrsp, tfsa_savings |-> tfsa,
      other_retirement_accounts |-> other, investor_type |-> investor_type ]

Holding(number_of_units, average_cost_per_unit, holding_name) ==
    [ number_of_units |-> number_of_units,
      average_cost_per_unit |-> average_cost_per_unit,
      holding_name |-> holding_name ]

-----------------------------------------------------------------------------
(* Inputs                                                                  *)

MinAge == 88
MaxAge == 92

UserData(age, income, expenses, savings, cash, holdings, rrsp, tfsa, other, lifestyle) ==
    [ profile |-> [age |-> age],
      financial |-> [ monthly_income |-> income,
                      monthly_expenses |-> expenses,
                      monthly_savings |-> savings,
                      cash_holdings |-> cash,
                      investment_holdings |-> holdings ],
      retirement |-> [ rrsp_savings |-> rrsp,
                       tfsa_savings |-> tfsa,
                       other_retirement_accounts |-> other,
                       desired_retirement_lifestyle |-> lifestyle ] ]

PlanInputs ==
    { UserData(age, 6, expenses, savings, cash, holdings, rrsp, tfsa, other, lifestyle) :
        age \in MinAge..MaxAge, expenses \in {0, 1}, savings \in {0, 1, 4},
        cash \in {0, 100}, holdings \in {0, 100}, rrsp \in {0, 100},
        tfsa \in {0, 50}, other \in {0, 50},
        lifestyle \in {"moderate", "lavish", "unset"} }

NoCalc == [none |-> TRUE]

Init ==
    /\ settings = Settings
    /\ args = [p \in {1} |-> NoArgs]
    /\ frame = [p \in {1} |-> Idle]
    /\ result = [p \in {1} |-> NoResult]
    /\ calc = NoCalc

Next ==
    \/ \E p \in DOMAIN frame : \E user_data \in PlanInputs : PlanStart(p, user_data)
    \/ \E p \in DOMAIN frame : PlanIter(p)
    \/ \E p \in DOMAIN frame : PlanLoopExit(p)
    \/ \E p \in DOMAIN frame : PlanFinish(p)
    \/ \E p \in DOMAIN frame : Release(p)

Spec == Init /\ [][Next]_vars

(* The settings come from the environment (BaseSettings): a deployment    *)
(* may set a life expectancy below the age ceiling                         *)
ConfiguredSettings ==
    { Settings, [Settings EXCEPT !.LIFE_EXPECTANCY = AGE_CEILING - 1] }

InitConfigured ==
    /\ settings \in ConfiguredSettings
    /\ args = [p \in {1} |-> NoArgs]
    /\ frame = [p \in {1} |-> Idle]
    /\ result = [p \in {1} |-> NoResult]
    /\ calc = NoCalc

SpecConfigured == InitConfigured /\ [][Next]_vars

(* One caller of the two definitions of calculate_retirement_what_if *)

MaxWhatIfYears == 2

(* requests of a 60 year old with 1000 saved: retirement a year ago, now   *)
(* or in up to MaxWhatIfYears years; one of the two rates is given as 5,   *)
(* as 0.05 or as 0; an inflation of 0.04 equals the withdrawal rate        *)
WhatIfRates ==
    { <<expected_return_rate, Lit(0, 0)>> :
        expected_return_rate \in {Lit(0, 0), Lit(5, 0), Lit(5, -2)} }
    \cup
    { <<Lit(0, 0), inflation_rate>> :
        inflation_rate \in {Lit(5, 0), Lit(5, -2), Lit(4, -2)} }

WhatIfScenarios ==
    { Scenario(60, retirement_age, 90, 1000, monthly_contribution,
               rates[1], rates[2], desired_retirement_income, include_cpp_oas) :
        retirement_age \in 59..(60 + MaxWhatIfYears),
        monthly_contribution \in {0, 10},
        rates \in WhatIfRates,
        desired_retirement_income \in {0, 240},
        include_cpp_oas \in BOOLEAN }

NextWhatIf ==
    \/ \E p \in DOMAIN frame : \E scenario \in WhatIfScenarios : WhatIfStart(p, scenario)
    \/ \E p \in DOMAIN frame : WhatIfIter(p)
    \/ \E p \in DOMAIN frame : WhatIfLoopExit(p)
    \/ \E p \in DOMAIN frame : WhatIfFinish(p)
    \/ \E p \in DOMAIN frame : \E scenario \in WhatIfScenarios : WhatIfUtilsStart(p, scenario)
    \/ \E p \in DOMAIN frame : WhatIfUtilsIter(p)
    \/ \E p \in DOMAIN frame : WhatIfUtilsLoopExit(p)
    \/ \E p \in DOMAIN frame : WhatIfUtilsFinish(p)
    \/ \E p \in DOMAIN frame : Release(p)

SpecWhatIf == Init /\ [][NextWhatIf]_vars

(* One caller of calculate_financial_metrics *)

MaxHoldings == 12

(* holding names as the holdings table may have them: the first two differ *)
(* in letter case only                                                     *)
HoldingNames ==
    << "VFV", "vfv", "XEQT", "xbb", "zag", "vcn", "xic", "zsp", "vun", "xef",
       "zcn", "vab", "xaw", "zdv" >>

(* tables of the first 0 to MaxHoldings names, and a row whose name is     *)
(* NULL                                                                    *)
MetricsHoldings ==
    { [i \in 1..n |-> Holding(Some(1), Some(10), Some(HoldingNames[i]))] :
        n \in 0..MaxHoldings }
    \cup { << Holding(Some(1), None, None) >> }

MetricsProfiles ==
    { ProfileData(age, income, expenses, Some(3000), Some(0), debt, rrsp, None, None,
                  investor_type) :
        age \in {None, Some(25), Some(45), Some(62)},
        income \in {None, Some(0), Some(1000)},
        expenses \in {None, Some(0), Some(600), Some(1000)},
        debt \in {Some(0), Some(10000)},
        rrsp \in {Some(0), Some(108000), Some(120000)},
        investor_type \in {None, Some("Balanced")} }

NextMetrics ==
    \/ \E p \in DOMAIN frame : \E profile_data \in MetricsProfiles :
           \E investment_holdings \in MetricsHoldings :
               MetricsStart(p, profile_data, investment_holdings)
    \/ \E p \in DOMAIN frame : MetricsFinish(p)
    \/ \E p \in DOMAIN frame : Release(p)

SpecMetrics == Init /\ [][NextMetrics]_vars

(* Two callers (threads, tasks) that call into the module independently *)

PairInputs ==
    { UserData(age, 6, 1, savings, cash, 100, 100, 0, 0, lifestyle) :
        age \in {MinAge, AGE_CEILING, MaxAge}, savings \in {0, 4},
        cash \in {0, 5, 100}, lifestyle \in {"lavish", "unset"} }

PairScenarios ==
    { Scenario(60, retirement_age, 90, 1000, monthly_contribution, Lit(5, 0), Lit(0, 0),
               desired_retirement_income, TRUE) :
        retirement_age \in {60, 62}, monthly_contribution \in {0, 10},
        desired_retirement_income \in {0, 90000} }

PairProfiles ==
    { ProfileData(age, income, Some(3000), Some(10000), Some(20000), Some(1000),
                  Some(30000), None, Some(5000), investor_type) :
        age \in {None, Some(45)}, income \in {None, Some(5000)},
        investor_type \in {None, Some("Balanced")} }

PairHoldings ==
    { << >>,
      << Holding(Some(10), Some(100), Some("VFV")),
         Holding(Some(5), None, Some("vfv")),
         Holding(Some(2), Some(50), Some("XEQT")) >> }

InitPair ==
    /\ settings = Settings
    /\ args = [p \in {1, 2} |-> NoArgs]
    /\ frame = [p \in {1, 2} |-> Idle]
    /\ result = [p \in {1, 2} |-> NoResult]
    /\ calc = NoCalc

NextPair ==
    \/ \E p \in DOMAIN frame : \E user_data \in PairInputs : PlanStart(p, user_data)
    \/ \E p \in DOMAIN frame : PlanIter(p)
    \/ \E p \in DOMAIN frame : PlanLoopExit(p)
    \/ \E p \in DOMAIN frame : PlanFinish(p)
    \/ \E p \in DOMAIN frame : \E scenario \in PairScenarios : WhatIfStart(p, scenario)
    \/ \E p \in DOMAIN frame : WhatIfIter(p)
    \/ \E p \in DOMAIN frame : WhatIfLoopExit(p)
    \/ \E p \in DOMAIN frame : WhatIfFinish(p)
    \/ \E p \in DOMAIN frame : \E profile_data \in PairProfiles :
           \E investment_holdings \in PairHoldings :
               MetricsStart(p, profile_data, investment_holdings)
    \/ \E p \in DOMAIN frame : MetricsFinish(p)
    \/ \E p \in DOMAIN frame : Release(p)

SpecPair == InitPair /\ [][NextPair]_vars

-----------------------------------------------------------------------------
(* The growth primitives applied to arguments of their own                 *)

(* the three definitions of future_value, each applied once to calc.args *)
ApplyFutureValueDecimal ==
    /\ calc.fn = "future_value"
    /\ calc.out.future_value_decimal = None
    /\ calc' = [calc EXCEPT !.out.future_value_decimal =
                   Some(future_value_decimal(calc.args.current_amount,
                                             calc.args.real_growth_rate,
                                             calc.args.years))]
    /\ UNCHANGED <<settings, args, frame, result>>

ApplyFutureValue ==
    /\ calc.fn = "future_value"
    /\ calc.out.future_value = None
    /\ calc' = [calc EXCEPT !.out.future_value =
                   Some(future_value(calc.args.current_amount,
                                     calc.args.real_growth_rate,
                                     calc.args.years))]
    /\ UNCHANGED <<settings, args, frame, result>>

ApplyFutureValueDec ==
    /\ calc.fn = "future_value"
    /\ calc.out.future_value_dec = None
    /\ calc' = [calc EXCEPT !.out.future_value_dec =
                   Some(future_value_dec(calc.args.current_amount,
                                         calc.args.real_growth_rate,
                                         calc.args.years))]
    /\ UNCHANGED <<settings, args, frame, result>>

MaxYears == 3

Amounts == {Int2Q(0), Int2Q(1), Int2Q(3), Int2Q(100)}

Rates == {Zero, Q(7, 100), RNeg(Q(1, 20)), One}

InitFutureValue ==
    /\ settings = Settings
    /\ args = [p \in {1} |-> NoArgs]
    /\ frame = [p \in {1} |-> Idle]
    /\ result = [p \in {1} |-> NoResult]
    /\ calc \in { [ fn |-> "future_value",
                    args |-> [ current_amount |-> current_amount,
                               real_growth_rate |-> real_growth_rate,
                               years |-> years ],
                    out |-> [ future_value_decimal |-> None,
                              future_value |-> None,
                              future_value_dec |-> None ] ] :
                  current_amount \in Amounts, real_growth_rate \in Rates,
                  years \in (-MaxYears)..MaxYears }

NextFutureValue ==
    \/ ApplyFutureValueDecimal
    \/ ApplyFutureValue
    \/ ApplyFutureValueDec

SpecFutureValue == InitFutureValue /\ [][NextFutureValue]_vars

(* the two definitions of calculate_after_tax_income applied to incomes;   *)
(* calc.calls holds the calls made so far                                  *)
MaxTaxCalls == 2

TaxCall(def, monthly_income, out) ==
    [def |-> def, monthly_income |-> monthly_income, out |-> out]

ApplyAfterTaxIncome(monthly_income) ==
    /\ calc.fn = "after_tax_income"
    /\ Cardinality(calc.calls) < MaxTaxCalls
    /\ calc' = [calc EXCEPT !.calls = @ \cup
                   {TaxCall("retirement_functions", monthly_income,
                            calculate_after_tax_income(monthly_income))}]
    /\ UNCHANGED <<settings, args, frame, result>>

ApplyAfterTaxIncomeUtils(monthly_income) ==
    /\ calc.fn = "after_tax_income"
    /\ Cardinality(calc.calls) < MaxTaxCalls
    /\ calc' = [calc EXCEPT !.calls = @ \cup
                   {TaxCall("utils_calculation_functions", monthly_income,
                            calculate_after_tax_income_utils(monthly_income))}]
    /\ UNCHANGED <<settings, args, frame, result>>

(* monthly incomes on both sides of every bracket bound, and on the first  *)
(* bound itself                                                            *)
MonthlyIncomes ==
    { Int2Q(0), Int2Q(1), Int2Q(1000), Int2Q(4655), Q(55867, 12), Int2Q(4656),
      Int2Q(9311), Int2Q(9312), Int2Q(14433), Int2Q(14434), Int2Q(20562),
      Int2Q(20563), Int2Q(25000) }

InitTax ==
    /\ settings = Settings
    /\ args = [p \in {1} |-> NoArgs]
    /\ frame = [p \in {1} |-> Idle]
    /\ result = [p \in {1} |-> NoResult]
    /\ calc = [fn |-> "after_tax_income", calls |-> {}]

NextTax ==
    \/ \E monthly_income \in MonthlyIncomes : ApplyAfterTaxIncome(monthly_income)
    \/ \E monthly_income \in MonthlyIncomes : ApplyAfterTaxIncomeUtils(monthly_income)

SpecTax == InitTax /\ [][NextTax]_vars

(* the three definitions of calculate_future_savings, each applied once to *)
(* calc.args                                                               *)
ApplyFutureSavingsDecimal ==
    /\ calc.fn = "future_savings"
    /\ calc.out.calculate_future_savings_decimal = None
    /\ calc' = [calc EXCEPT !.out.calculate_future_savings_decimal =
                   Some(calculate_future_savings_decimal(
                            calc.args.current_savings, calc.args.annual_savings,
                            calc.args.real_growth_rate, calc.args.years))]
    /\ UNCHANGED <<settings, args, frame, result>>

ApplyFutureSavingsShadowing ==
    /\ calc.fn = "future_savings"
    /\ calc.out.calculate_future_savings = None
    /\ calc' = [calc EXCEPT !.out.calculate_future_savings =
                   Some(calculate_future_savings(
                            calc.args.current_savings, calc.args.annual_savings,
                            calc.args.real_growth_rate, calc.args.years))]
    /\ UNCHANGED <<settings, args, frame, result>>

ApplyFutureSavingsDec ==
    /\ calc.fn = "future_savings"
    /\ calc.out.calculate_future_savings_dec = None
    /\ calc' = [calc EXCEPT !.out.calculate_future_savings_dec =
                   Some(calculate_future_savings_dec(
                            calc.args.current_savings, calc.args.annual_savings,
                            calc.args.real_growth_rate, calc.args.years))]
    /\ UNCHANGED <<settings, args, frame, result>>

SavingsRates == {Zero, Q(1, 20), RNeg(Q(1, 20)), One}

InitFutureSavings ==
    /\ settings = Settings
    /\ args = [p \in {1} |-> NoArgs]
    /\ frame = [p \in {1} |-> Idle]
    /\ result = [p \in {1} |-> NoResult]
    /\ calc \in { [ fn |-> "future_savings",
                    args |-> [ current_savings |-> current_savings,
                               annual_savings |-> annual_savings,
                               real_growth_rate |-> real_growth_rate,
                               years |-> years ],
                    out |-> [ calculate_future_savings_decimal |-> None,
                              calculate_future_savings |-> None,
                              calculate_future_savings_dec |-> None ] ] :
                  current_savings \in Amounts,
                  annual_savings \in {Int2Q(0), Int2Q(12), Q(1021, 100)},
                  real_growth_rate \in SavingsRates,
                  years \in (-MaxYears)..MaxYears }

NextFutureSavings ==
    \/ ApplyFutureSavingsDecimal
    \/ ApplyFutureSavingsShadowing
    \/ ApplyFutureSavingsDec

SpecFutureSavings == InitFutureSavings /\ [][NextFutureSavings]_vars

(* the for loop of calculate_retirement_what_if alone: the balance it      *)
(* leaves in projected_savings                                             *)
RECURSIVE WhatIfLoop(_)
WhatIfLoop(f) ==
    IF WhatIfLoopCondition(f) THEN WhatIfLoop(WhatIfBody(f)) ELSE f.projected_savings

(* a what-if request of years years whose loop grows current_savings at    *)
(* the rate rate_percent / 100 (no inflation) with monthly_contribution    *)
GrowthScenario(current_savings, monthly_contribution, rate_percent, years) ==
    Scenario(0, years, 0, current_savings, monthly_contribution,
             Lit(rate_percent, 0), Lit(0, 0), 0, FALSE)

(* the three growth projections, each applied once to calc.args *)
ApplyFutureSavings ==
    /\ calc.fn = "growth"
    /\ calc.out.calculate_future_savings = None
    /\ calc' = [calc EXCEPT !.out.calculate_future_savings =
                   Some(calculate_future_savings(
                            Dec(calc.args.current_savings),
                            RMul(Dec(calc.args.monthly_contribution), Int2Q(12)),
                            Q(calc.args.rate_percent, 100),
                            calc.args.years))]
    /\ UNCHANGED <<settings, args, frame, result>>

ApplyWhatIfLoop ==
    /\ calc.fn = "growth"
    /\ calc.out.calculate_retirement_what_if = None
    /\ calc' = [calc EXCEPT !.out.calculate_retirement_what_if =
                   Some(WhatIfLoop(WhatIfLocals(
                            GrowthScenario(calc.args.current_savings,
                                           calc.args.monthly_contribution,
                                           calc.args.rate_percent,
                                           calc.args.years))))]
    /\ UNCHANGED <<settings, args, frame, result>>

ApplyProjectedSavings ==
    /\ calc.fn = "growth"
    /\ calc.out.calculate_projected_savings = None
    /\ calc' = [calc EXCEPT !.out.calculate_projected_savings =
                   Some(calculate_projected_savings(
                            Dec(calc.args.current_savings),
                            Dec(calc.args.monthly_contribution),
                            Q(calc.args.rate_percent, 100),
                            calc.args.years))]
    /\ UNCHANGED <<settings, args, frame, result>>

MaxGrowthYears == 1

(* rates of 0 and 1200 percent a year, 0 and 100 percent a month *)
GrowthRates == {0, 1200}

InitGrowth ==
    /\ settings = Settings
    /\ args = [p \in {1} |-> NoArgs]
    /\ frame = [p \in {1} |-> Idle]
    /\ result = [p \in {1} |-> NoResult]
    /\ calc \in { [ fn |-> "growth",
                    args |-> [ current_savings |-> current_savings,
                               monthly_contribution |-> monthly_contribution,
                               rate_percent |-> rate_percent,
                               years |-> years ],
                    out |-> [ calculate_future_savings |-> None,
                              calculate_retirement_what_if |-> None,
                              calculate_projected_savings |-> None ] ] :
                  current_savings \in {0, 100, 1000},
                  monthly_contribution \in {0, 1, 10},
                  rate_percent \in GrowthRates,
                  years \in 0..MaxGrowthYears }

NextGrowth ==
    \/ ApplyFutureSavings
    \/ ApplyWhatIfLoop
    \/ ApplyProjectedSavings

SpecGrowth == InitGrowth /\ [][NextGrowth]_vars

-----------------------------------------------------------------------------
(* Properties of calculate_current_retirement_plan                         *)

(* the calls of the plan function that have ended *)
PlanDone == {p \in DOMAIN frame : frame[p].pc = "done" /\ frame[p].fn = PlanFn}

PlanReturned == {p \in PlanDone : result[p].status = "returned"}

(* projected_cash(a) + projected_investments(a) >= required_savings(a),    *)
(* from the argument of the call                                           *)
FeasibleAt(user_data, a) ==
    LET f == PlanLocals(settings, user_data)
        y == a - user_data.profile.age
    IN  RLeq(RequiredSavings(f, y), ProjectedAssets(f, y))

FeasibleAges(user_data) ==
    {a \in user_data.profile.age..AGE_CEILING : FeasibleAt(user_data, a)}

(* C1: whenever some candidate age in [current_age, 90] is feasible, the   *)
(* call returns and its retirement_age is the least feasible age.          *)
C1_EarliestFeasibleAge ==
    \A p \in PlanDone :
        FeasibleAges(args[p]) # {} =>
            /\ result[p].status = "returned"
            /\ result[p].retirement_age \in FeasibleAges(args[p])
            /\ \A a \in FeasibleAges(args[p]) : result[p].retirement_age <= a

(* a call whose search passed over infeasible ages before the feasible one *)
C1_Witness ==
    \E p \in PlanReturned :
        /\ FeasibleAges(args[p]) # {}
        /\ result[p].retirement_age > args[p].profile.age

(* C2 as claimed: when the candidate ages [current_age, 90] are all        *)
(* infeasible the call returns retirement_age = 90 and a savings_gap > 0.  *)
C2_CeilingReportsPositiveGap ==
    \A p \in PlanDone :
        (args[p].profile.age <= AGE_CEILING /\ FeasibleAges(args[p]) = {}) =>
            /\ result[p].status = "returned"
            /\ result[p].retirement_age = AGE_CEILING
            /\ RLt(Zero, result[p].savings_gap)

(* C3: in every result savings_gap = max(0, required_savings -             *)
(* projected_savings) of the result's own fields, hence savings_gap >= 0.  *)
C3_GapIsClampedDifference ==
    \A p \in PlanReturned :
        /\ result[p].savings_gap =
               RMax(Zero, RSub(result[p].required_savings, result[p].projected_savings))
        /\ RLeq(Zero, result[p].savings_gap)

(* a result whose projected savings exceed a positive requirement: the     *)
(* difference is negative and the clamp decides the gap                    *)
C3_Witness ==
    \E p \in PlanReturned :
        /\ RLt(Zero, result[p].required_savings)
        /\ RLt(result[p].required_savings, result[p].projected_savings)

(* C5 as claimed: for current_age >= 90 the call does not raise and        *)
(* returns retirement_age = 90.                                            *)
C5_AtOrAboveCeilingReturns ==
    \A p \in PlanDone :
        args[p].profile.age >= AGE_CEILING =>
            /\ result[p].status = "returned"
            /\ result[p].retirement_age = AGE_CEILING

(* rrsp_savings + tfsa_savings + other_retirement_accounts +               *)
(* investment_holdings of a call's argument                                *)
AllFourBalances(user_data) ==
    RAdd(RAdd(RAdd(Dec(user_data.retirement.rrsp_savings),
                   Dec(user_data.retirement.tfsa_savings)),
              Dec(user_data.retirement.other_retirement_accounts)),
         Dec(user_data.financial.investment_holdings))

(* C14 as claimed: the principal grown by calculate_future_savings is the  *)
(* sum of the four balances, and the result's current_savings is           *)
(* cash_holdings plus that sum.                                            *)
C14_PrincipalIsAllFourBalances ==
    \A p \in PlanDone :
        /\ frame[p].current_investments = AllFourBalances(args[p])
        /\ result[p].status = "returned" =>
               result[p].current_savings =
                   ToFloat(RAdd(Dec(args[p].financial.cash_holdings),
                                AllFourBalances(args[p])))

(* C15: in every result years_in_retirement =                              *)
(* max(0, life_expectancy - retirement_age), hence never negative.         *)
C15_YearsInRetirementClamped ==
    \A p \in PlanReturned :
        LET difference == settings.LIFE_EXPECTANCY - result[p].retirement_age
        IN  /\ result[p].years_in_retirement >= 0
            /\ difference >= 0 => result[p].years_in_retirement = difference
            /\ difference < 0 => result[p].years_in_retirement = 0

(* a result whose retirement age lies beyond the life expectancy *)
C15_Witness ==
    \E p \in PlanReturned :
        /\ settings.LIFE_EXPECTANCY < result[p].retirement_age
        /\ result[p].years_in_retirement = 0

(* the CPP and OAS amounts of the settings, each inflated by future_value  *)
(* over y years, summed                                                    *)
InflatedBenefits(y) ==
    LET inflation_rate == RDiv(settings.ANNUAL_INFLATION_RATE, Int2Q(100))
    IN  RAdd(future_value(settings.RETIREMENT_INCOME_CPP, inflation_rate, y),
             future_value(settings.RETIREMENT_INCOME_OAS, inflation_rate, y))

(* the distance of two amounts is at most two steps of the float grid *)
WithinRounding(x, y) ==
    /\ RLeq(RSub(x, y), Q(2, FloatGrid))
    /\ RLeq(RSub(y, x), Q(2, FloatGrid))

(* C16: in every result government_benefits is one twelfth of the inflated *)
(* CPP and OAS amounts over the result's years_until_retirement,           *)
(* savings_income is projected_savings * withdrawal_rate / 12, and         *)
(* retirement_income is their sum: exactly so on the Decimal amounts that  *)
(* the fields are the floats of, and up to the float conversion on the     *)
(* fields themselves.                                                      *)
C16_IncomeComposition ==
    \A p \in PlanReturned :
        LET government == RDiv(InflatedBenefits(result[p].years_until_retirement),
                               Int2Q(12))
            savings == RDiv(RMul(frame[p].feasible_projected_savings,
                                 settings.WITHDRAWAL_RATE), Int2Q(12))
        IN  /\ result[p].projected_savings = ToFloat(frame[p].feasible_projected_savings)
            /\ result[p].government_benefits = ToFloat(government)
            /\ result[p].savings_income = ToFloat(savings)
            /\ result[p].retirement_income = ToFloat(RAdd(government, savings))
            /\ WithinRounding(result[p].retirement_income,
                              RAdd(result[p].government_benefits,
                                   result[p].savings_income))

(* a result with income from savings, reached after years of inflation *)
C16_Witness ==
    \E p \in PlanReturned :
        /\ result[p].years_until_retirement >= 1
        /\ RLt(Zero, result[p].savings_income)
        /\ RLt(Zero, result[p].government_benefits)

(* the ages the loop has examined are current_age, current_age + 1, ...    *)
(* without repetition, all within [current_age, 90]                        *)
SearchBounded(f) ==
    /\ \A i \in 1..Len(f.examined) : f.examined[i] = f.current_age + i - 1
    /\ \A i \in 1..Len(f.examined) : f.examined[i] <= AGE_CEILING
    /\ Len(f.examined) <= Cardinality(f.current_age..AGE_CEILING)
    /\ f.pc = "done" => f.retirement_age <= AGE_CEILING

(* the candidate ages the loop has still to examine *)
Remaining(f) == Cardinality(f.retirement_age..AGE_CEILING)

C6_Safety ==
    \A p \in DOMAIN frame :
        (frame[p].pc # "idle" /\ frame[p].fn = PlanFn) =>
            /\ SearchBounded(frame[p])
            /\ frame[p].pc = "loop" =>
                   Len(frame[p].examined) + Remaining(frame[p]) =
                       Cardinality(frame[p].current_age..AGE_CEILING)

(* a step that stays in the loop examines one more age *)
C6_Progress ==
    \A p \in DOMAIN frame :
        (frame[p].pc = "loop" /\ frame'[p].pc = "loop") =>
            Remaining(frame'[p]) = Remaining(frame[p]) - 1

(* C6: the search terminates: it examines each age of [current_age, 90] at *)
(* most once, in increasing order (at most 91 - current_age ages when      *)
(* current_age <= 90, none above); the ages examined and the ages left add *)
(* up to the interval, every step that stays in the loop uses one up, and  *)
(* the call ends with retirement_age <= 90.                                *)
C6_SearchTerminates == []C6_Safety /\ [][C6_Progress]_vars

(* a call that examined every candidate age of a non-trivial interval *)
C6_Witness ==
    \E p \in PlanDone :
        /\ Len(frame[p].examined) = AGE_CEILING - frame[p].current_age + 1
        /\ Len(frame[p].examined) >= 3

(* the arguments of two calls differ at most in monthly_savings *)
SameButSavings(u1, u2) ==
    /\ u1.profile = u2.profile
    /\ u1.retirement = u2.retirement
    /\ [u1.financial EXCEPT !.monthly_savings = 0] =
           [u2.financial EXCEPT !.monthly_savings = 0]

(* C4: of two returned calls whose inputs differ only in monthly_savings,  *)
(* the one with the larger monthly_savings has no greater retirement_age   *)
(* and no greater savings_gap.                                             *)
C4_MonotoneInContribution ==
    \A p \in PlanReturned : \A q \in PlanReturned :
        ( /\ SameButSavings(args[p], args[q])
          /\ args[p].financial.monthly_savings <= args[q].financial.monthly_savings ) =>
            /\ result[q].retirement_age <= result[p].retirement_age
            /\ RLeq(result[q].savings_gap, result[p].savings_gap)

(* two such calls where the larger contribution brings retirement forward *)
C4_Witness ==
    \E p \in PlanReturned : \E q \in PlanReturned :
        /\ SameButSavings(args[p], args[q])
        /\ args[p].financial.monthly_savings < args[q].financial.monthly_savings
        /\ result[q].retirement_age < result[p].retirement_age

(* C7: two ended calls with identical user_data have identical outcomes    *)
(* (every field of the response, or the same exception), whatever calls    *)
(* ran before, between or beside them; the settings are the same for all.  *)
C7_Deterministic ==
    \A p \in PlanDone : \A q \in PlanDone :
        args[p] = args[q] => result[p] = result[q]

(* two ended calls of different callers with the same user_data *)
C7_Witness ==
    \E p \in PlanReturned : \E q \in PlanReturned :
        /\ p # q
        /\ args[p] = args[q]
        /\ result[p].retirement_age > args[p].profile.age

-----------------------------------------------------------------------------
(* Independence of concurrent calls                                        *)

(* the result of the call of fn with the arguments a when it runs alone,   *)
(* under the settings the module was loaded with                           *)
AloneResult(fn, a) ==
    CASE fn = PlanFn    -> PlanRun(PlanLocals(Settings, a))
      [] fn = WhatIfFn  -> WhatIfRun(WhatIfLocals(a), a)
      [] fn = MetricsFn -> MetricsRun(a.profile_data, a.investment_holdings)

Active(f) == f.pc # "idle"

C8_SameAsAlone ==
    \A p \in DOMAIN frame :
        frame[p].pc = "done" => result[p] = AloneResult(frame[p].fn, args[p])

(* a step belongs to one caller: it leaves the module's settings, the      *)
(* argument of a call in progress, and every other caller's locals,        *)
(* argument and result as they were                                        *)
C8_StepIsLocal ==
    /\ settings' = settings
    /\ \A p \in DOMAIN frame :
           (Active(frame[p]) /\ Active(frame'[p])) => args'[p] = args[p]
    /\ \E p \in DOMAIN frame : \A q \in DOMAIN frame \ {p} :
           /\ frame'[q] = frame[q]
           /\ args'[q] = args[q]
           /\ result'[q] = result[q]

(* C8: calls of the three core functions by different callers do not       *)
(* interfere: every step writes only the locals and the result of the call *)
(* it belongs to, never the input record of a call or the module's         *)
(* settings, and in every interleaving each call ends with the result it   *)
(* has when it runs alone.                                                 *)
C8_NoInterference == []C8_SameAsAlone /\ [][C8_StepIsLocal]_vars

(* calls of two different core functions, both ended and neither yet       *)
(* released, each after at least one iteration of its loop                 *)
C8_Witness ==
    \E p \in DOMAIN frame : \E q \in DOMAIN frame :
        /\ frame[p].pc = "done" /\ frame[p].fn = PlanFn
        /\ result[p].status = "returned"
        /\ Len(frame[p].examined) >= 2
        /\ frame[q].pc = "done" /\ frame[q].fn = WhatIfFn
        /\ result[q].status = "returned"
        /\ Len(result[q].savings_by_year) >= 2

-----------------------------------------------------------------------------
(* Properties of the growth primitives                                     *)

(* principal compounded year by year: years multiplications by 1 + rate *)
RECURSIVE Compound(_, _, _)
Compound(principal, rate, years) ==
    IF years = 0 THEN principal
    ELSE RMul(Compound(principal, rate, years - 1), RAdd(One, rate))

FutureValueOutputs ==
    {calc.out.future_value_decimal, calc.out.future_value, calc.out.future_value_dec}
        \ {None}

(* C10: each of the three definitions of future_value returns the          *)
(* principal unchanged for years <= 0 and principal * (1 + rate)^years for *)
(* years > 0.                                                              *)
C10_FutureValue ==
    calc.fn = "future_value" =>
        \A out \in FutureValueOutputs :
            IF calc.args.years <= 0
            THEN out[1] = calc.args.current_amount
            ELSE out[1] = Compound(calc.args.current_amount,
                                   calc.args.real_growth_rate, calc.args.years)

(* the three definitions applied to a non-zero principal and rate and a    *)
(* negative number of years                                                *)
C10_Witness ==
    /\ calc.fn = "future_value"
    /\ Cardinality({calc.out.future_value_decimal, calc.out.future_value,
                    calc.out.future_value_dec} \ {None}) = 1
    /\ None \notin {calc.out.future_value_decimal, calc.out.future_value,
                    calc.out.future_value_dec}
    /\ calc.args.years < 0
    /\ calc.args.current_amount # Zero
    /\ calc.args.real_growth_rate # Zero

TaxCalls == IF calc.fn = "after_tax_income" THEN calc.calls ELSE {}

(* C12: calculate_after_tax_income is non-decreasing on non-negative       *)
(* monthly incomes, and calculate_after_tax_income(0) = 0.                 *)
C12_AfterTaxMonotone ==
    /\ \A c1 \in TaxCalls : \A c2 \in TaxCalls :
           (c1.def = c2.def /\ RLeq(Zero, c1.monthly_income)
              /\ RLeq(c1.monthly_income, c2.monthly_income)) =>
               RLeq(c1.out, c2.out)
    /\ \A c \in TaxCalls : c.monthly_income = Zero => c.out = Zero

(* two calls of one definition whose incomes lie in different brackets,    *)
(* the higher one in the top bracket                                       *)
C12_Witness ==
    \E c1 \in TaxCalls : \E c2 \in TaxCalls :
        /\ c1.def = c2.def
        /\ RLt(Int2Q(173205), RMul(c1.monthly_income, Int2Q(12)))
        /\ RLt(RMul(c1.monthly_income, Int2Q(12)), Int2Q(246752))
        /\ RLt(Int2Q(246752), RMul(c2.monthly_income, Int2Q(12)))
        /\ RLt(c1.out, c2.out)

(* the brackets are contiguous from 0 to infinity *)
BracketsContiguous ==
    /\ tax_brackets[1][1] = 0
    /\ \A i \in 1..(Len(tax_brackets) - 1) : tax_brackets[i][2] = tax_brackets[i + 1][1]
    /\ tax_brackets[Len(tax_brackets)][2] = Inf

(* rate * max(0, min(A, upper) - lower) of the i-th bracket *)
BracketTax(annual_income, i) ==
    LET lower == Int2Q(tax_brackets[i][1])
        top   == IF tax_brackets[i][2] = Inf THEN annual_income
                 ELSE RMin(annual_income, Int2Q(tax_brackets[i][2]))
    IN  RMul(tax_brackets[i][3], RMax(Zero, RSub(top, lower)))

RECURSIVE BracketTaxSum(_, _)
BracketTaxSum(annual_income, i) ==
    IF i = 0 THEN Zero
    ELSE RAdd(BracketTaxSum(annual_income, i - 1), BracketTax(annual_income, i))

(* C13: the bracket table is contiguous and exhaustive, and for every      *)
(* non-negative income both definitions return a value whose tax, the      *)
(* annual income less twelve times the result, is the sum over all         *)
(* brackets of rate * max(0, min(A, upper) - lower).                       *)
C13_TaxIsSumOfSlices ==
    /\ BracketsContiguous
    /\ \A c \in TaxCalls :
           LET annual_income == RMul(c.monthly_income, Int2Q(12))
           IN  RSub(annual_income, RMul(c.out, Int2Q(12))) =
                   BracketTaxSum(annual_income, Len(tax_brackets))

(* both definitions applied to an income of the top bracket *)
C13_Witness ==
    \E c1 \in TaxCalls : \E c2 \in TaxCalls :
        /\ c1.def = "retirement_functions"
        /\ c2.def = "utils_calculation_functions"
        /\ c1.monthly_income = c2.monthly_income
        /\ RLt(Int2Q(246752), RMul(c1.monthly_income, Int2Q(12)))

(* v_t of the recurrence v_0 = principal,                                  *)
(* v_{t+1} = v_t * (1 + rate) + annual_contribution                        *)
RECURSIVE RecurrenceValue(_, _, _, _)
RecurrenceValue(principal, annual_contribution, rate, t) ==
    IF t = 0 THEN principal
    ELSE RAdd(RMul(RecurrenceValue(principal, annual_contribution, rate, t - 1),
                   RAdd(One, rate)),
              annual_contribution)

FutureSavingsOutputs ==
    {calc.out.calculate_future_savings_decimal, calc.out.calculate_future_savings,
     calc.out.calculate_future_savings_dec} \ {None}

(* C11: calculate_future_savings(principal, annual_contribution, rate,     *)
(* years) is v_years of the recurrence, the step applied exactly years     *)
(* times, and the principal unchanged for years <= 0; the same for the     *)
(* shadowed Decimal definition and calculate_future_savings_dec.           *)
C11_FutureSavingsIsRecurrence ==
    calc.fn = "future_savings" =>
        \A out \in FutureSavingsOutputs :
            IF calc.args.years <= 0
            THEN out[1] = calc.args.current_savings
            ELSE out[1] = RecurrenceValue(calc.args.current_savings,
                                          calc.args.annual_savings,
                                          calc.args.real_growth_rate,
                                          calc.args.years)

(* the definitions applied over several years to a growing balance with a  *)
(* contribution                                                            *)
C11_Witness ==
    /\ calc.fn = "future_savings"
    /\ None \notin {calc.out.calculate_future_savings_decimal,
                    calc.out.calculate_future_savings,
                    calc.out.calculate_future_savings_dec}
    /\ calc.args.years >= 3
    /\ calc.args.current_savings # Zero
    /\ calc.args.annual_savings # Zero
    /\ calc.args.real_growth_rate # Zero

GrowthOutputs ==
    {calc.out.calculate_future_savings, calc.out.calculate_retirement_what_if,
     calc.out.calculate_projected_savings} \ {None}

(* C9 as claimed: for the same starting balance, annual contribution       *)
(* (12 x the monthly contribution), rate and non-negative number of years, *)
(* calculate_future_savings, the year loop of calculate_retirement_what_if *)
(* and calculate_projected_savings give the same final balance.            *)
C9_GrowthProjectionsAgree ==
    calc.fn = "growth" => Cardinality(GrowthOutputs) <= 1

-----------------------------------------------------------------------------
(* Properties of the two definitions of calculate_retirement_what_if,      *)
(* under SpecWhatIf                                                        *)

(* a call of either definition has returned its result *)
WhatIfReturned ==
    /\ frame[1].pc = "done"
    /\ frame[1].fn \in {WhatIfFn, WhatIfUtilsFn}
    /\ result[1].status = "returned"

WhatIfDone == frame[1].pc = "done" /\ frame[1].fn \in {WhatIfFn, WhatIfUtilsFn}

(* C17: whenever retirement_age >= current_age, the savings_by_year of a    *)
(* what-if result has exactly years_until_retirement + 1 entries, its year *)
(* labels increase by one from entry to entry, and the amount of its first *)
(* entry is the current_savings of the request.                            *)
C17_SavingsByYear ==
    (WhatIfReturned /\ args[1].retirement_age >= args[1].current_age) =>
        LET savings_by_year == result[1].savings_by_year
        IN  /\ Len(savings_by_year) =
                   args[1].retirement_age - args[1].current_age + 1
            /\ \A i \in 1..(Len(savings_by_year) - 1) :
                   savings_by_year[i + 1].year = savings_by_year[i].year + 1
            /\ savings_by_year[1].amount = Int2Q(args[1].current_savings)

(* the other definition has returned a trajectory of three entries whose   *)
(* amounts differ                                                          *)
C17_Witness ==
    /\ WhatIfReturned
    /\ frame[1].fn = WhatIfUtilsFn
    /\ args[1].retirement_age = args[1].current_age + 2
    /\ Len(result[1].savings_by_year) = 3
    /\ result[1].savings_by_year[3].amount # result[1].savings_by_year[1].amount

(* a rate literal above 1 rewritten as the fraction it is a percentage of *)
PercentAsFraction(x) == IF RLt(One, DecLit(x)) THEN Lit(x.m, x.e - 2) ELSE x

(* the request with both rates given as fractions *)
RatesAsFractions(scenario) ==
    [scenario EXCEPT !.expected_return_rate = PercentAsFraction(@),
                     !.inflation_rate = PercentAsFraction(@)]

(* what the definition fn makes of the request scenario *)
WhatIfResult(fn, scenario) ==
    IF fn = WhatIfFn THEN WhatIfRun(WhatIfLocals(scenario), scenario)
    ELSE WhatIfUtilsRun(WhatIfUtilsLocals(scenario), scenario)

(* the outcome of the call of fn is that of the request with its rates     *)
(* given as fractions                                                      *)
RatesNormalized(fn) ==
    (WhatIfDone /\ frame[1].fn = fn) =>
        result[1] = WhatIfResult(fn, RatesAsFractions(args[1]))

(* C18 as claimed: calculate_retirement_what_if divides a rate above 1 by  *)
(* 100 and takes a rate of at most 1 as it is, so a request that gives a   *)
(* rate as 5 has the result of the request that gives it as 0.05.          *)
C18_RatesNormalized == RatesNormalized(WhatIfFn) /\ RatesNormalized(WhatIfUtilsFn)

(* the part of C18 that holds: the definition of retirement_functions.py   *)
C18_RoutesDefinitionNormalizes == RatesNormalized(WhatIfFn)

(* that definition has returned for a request with a rate given as 5 *)
C18_RoutesWitness ==
    /\ WhatIfReturned
    /\ frame[1].fn = WhatIfFn
    /\ args[1].expected_return_rate = Lit(5, 0)
    /\ args[1].retirement_age > args[1].current_age

(* C19 as claimed: a call of calculate_retirement_what_if with              *)
(* retirement_age = current_age returns a result, no division by zero or   *)
(* other error, and its monthly_contribution_needed is the                 *)
(* monthly_contribution of the request, also when the income gap is        *)
(* positive.                                                               *)
C19_NoYearsShortCircuits ==
    (WhatIfDone /\ args[1].retirement_age = args[1].current_age) =>
        /\ result[1].status = "returned"
        /\ result[1].monthly_contribution_needed =
               ToFloat(Dec(args[1].monthly_contribution))

(* the monthly income gap of a returned result: retirement_functions.py    *)
(* reports it as savings_gap, utils_calculation_functions.py takes it to   *)
(* be desired_retirement_income less monthly_retirement_income             *)
IncomeGap ==
    IF frame[1].fn = WhatIfFn THEN result[1].savings_gap
    ELSE RSub(Dec(args[1].desired_retirement_income),
              result[1].monthly_retirement_income)

(* the result asks for no less than the monthly_contribution of the        *)
(* request, and for exactly that when the income gap is not positive       *)
ContributionNotReduced ==
    /\ RLeq(ToFloat(Dec(args[1].monthly_contribution)),
            result[1].monthly_contribution_needed)
    /\ ~RLt(Zero, IncomeGap) =>
           result[1].monthly_contribution_needed =
               ToFloat(Dec(args[1].monthly_contribution))

(* C20 as claimed: in every what-if result monthly_contribution_needed is  *)
(* the monthly_contribution of the request plus an additional contribution *)
(* that is never negative and is zero when the income gap is not positive, *)
(* so monthly_contribution_needed >= monthly_contribution always.          *)
C20_ContributionNeverReduced == WhatIfReturned => ContributionNotReduced

(* the part of C20 that holds: the definition of retirement_functions.py   *)
(* on requests with retirement_age >= current_age                          *)
C20_RoutesDefinitionForward ==
    (WhatIfReturned /\ frame[1].fn = WhatIfFn
        /\ args[1].retirement_age >= args[1].current_age) => ContributionNotReduced

(* that definition has returned a larger contribution for a positive gap *)
C20_RoutesWitness ==
    /\ WhatIfReturned
    /\ frame[1].fn = WhatIfFn
    /\ args[1].retirement_age > args[1].current_age
    /\ RLt(Zero, IncomeGap)
    /\ RLt(ToFloat(Dec(args[1].monthly_contribution)),
           result[1].monthly_contribution_needed)

(* the monthly income gap a returned result reports: retirement_functions  *)
(* reports it as savings_gap; utils_calculation_functions reports          *)
(* savings_gap = gap * 12 / (0.04 - inflation_rate), which is undone here  *)
ReportedIncomeGap ==
    IF frame[1].fn = WhatIfFn THEN result[1].savings_gap
    ELSE RDiv(RMul(result[1].savings_gap,
                   RSub(UTILS_WITHDRAWAL_RATE, frame[1].inflation_rate)),
              Int2Q(12))

(* the gap on a monthly basis, from the desired annual income *)
MonthlyIncomeGap ==
    RSub(RDiv(Dec(args[1].desired_retirement_income), Int2Q(12)),
         result[1].monthly_retirement_income)

(* C21 as claimed: the income gap of a what-if result is                   *)
(* desired_retirement_income / 12 - monthly_retirement_income, the desired *)
(* income being an annual amount.                                          *)
C21_GapIsMonthly ==
    WhatIfReturned => WithinRounding(ReportedIncomeGap, MonthlyIncomeGap)

(* the part of C21 that holds: the definition of retirement_functions.py   *)
C21_RoutesDefinitionMonthly ==
    (WhatIfReturned /\ frame[1].fn = WhatIfFn) =>
        WithinRounding(ReportedIncomeGap, MonthlyIncomeGap)

(* that definition has returned for a desired annual income of 240 *)
C21_RoutesWitness ==
    /\ WhatIfReturned
    /\ frame[1].fn = WhatIfFn
    /\ args[1].desired_retirement_income = 240
    /\ args[1].retirement_age > args[1].current_age

(* total_savings_at_retirement * (0.04 - inflation_rate) / 12 of a         *)
(* returned result, the inflation rate as the call holds it                *)
OffsetSavingsIncome ==
    RDiv(RMul(result[1].total_savings_at_retirement,
              RSub(Q(4, 100), frame[1].inflation_rate)),
         Int2Q(12))

(* C22 as claimed: the monthly income from savings of a what-if result is  *)
(* total_savings_at_retirement * (0.04 - inflation_rate) / 12, inflation   *)
(* being a direct offset to the withdrawal rate.                           *)
C22_InflationOffsetsWithdrawal ==
    WhatIfReturned =>
        WithinRounding(result[1].monthly_income_breakdown.savings_income,
                       OffsetSavingsIncome)

(* the part of C22 that holds: the definition of                           *)
(* utils_calculation_functions.py                                          *)
C22_UtilsDefinitionOffsets ==
    (WhatIfReturned /\ frame[1].fn = WhatIfUtilsFn) =>
        WithinRounding(result[1].monthly_income_breakdown.savings_income,
                       OffsetSavingsIncome)

(* that definition has returned for an inflation of 0.05 *)
C22_UtilsWitness ==
    /\ WhatIfReturned
    /\ frame[1].fn = WhatIfUtilsFn
    /\ args[1].inflation_rate = Lit(5, -2)
    /\ result[1].monthly_income_breakdown.savings_income # Zero

-----------------------------------------------------------------------------
(* Properties of calculate_financial_metrics, under SpecMetrics            *)

MetricsDone == frame[1].pc = "done" /\ frame[1].fn = MetricsFn

MetricsReturned == MetricsDone /\ result[1].status = "returned"

(* a profile value that is missing or zero *)
ZeroOrMissing(x) == x = None \/ x = Some(0)

(* the call can raise only for a NULL investor type or holding name *)
NothingNull ==
    /\ args[1].profile_data.investor_type # None
    /\ \A i \in DOMAIN args[1].investment_holdings :
           args[1].investment_holdings[i].holding_name # None

(* C23: calculate_financial_metrics does not raise on a zero or missing    *)
(* denominator: with monthly_expenses zero or missing emergency_fund_ratio *)
(* is None and emergency_fund_status 'Not Available'; with monthly_income  *)
(* zero or missing debt_to_income_ratio, savings_rate and                  *)
(* retirement_savings_ratio are None and their statuses 'Not Available'.   *)
C23_ZeroDenominatorsShortCircuit ==
    MetricsDone =>
        /\ NothingNull => result[1].status = "returned"
        /\ (result[1].status = "returned"
               /\ ZeroOrMissing(args[1].profile_data.monthly_expenses)) =>
               /\ result[1].emergency_fund_ratio = None
               /\ result[1].emergency_fund_status = "Not Available"
        /\ (result[1].status = "returned"
               /\ ZeroOrMissing(args[1].profile_data.monthly_income)) =>
               /\ result[1].debt_to_income_ratio = None
               /\ result[1].debt_status = "Not Available"
               /\ result[1].savings_rate = None
               /\ result[1].savings_status = "Not Available"
               /\ result[1].retirement_savings_ratio = None
               /\ result[1].retirement_status = "Not Available"

(* a call has returned for a profile with no income and no expenses and    *)
(* with debt, cash and retirement savings to divide                        *)
C23_Witness ==
    /\ MetricsReturned
    /\ args[1].profile_data.monthly_income = Some(0)
    /\ args[1].profile_data.monthly_expenses = Some(0)
    /\ args[1].profile_data.debt = Some(10000)
    /\ args[1].profile_data.rrsp_savings = Some(108000)
    /\ result[1].emergency_fund_ratio = None

Min(a, b) == IF a < b THEN a ELSE b

(* the holding names of the call, as written and in lower case *)
NamesAsWritten ==
    { args[1].investment_holdings[i].holding_name[1] :
        i \in DOMAIN args[1].investment_holdings }

NamesIgnoringCase == { Lower(name) : name \in NamesAsWritten }

AgeBandTarget(age) ==
    IF age < 30 THEN 1 ELSE IF age < 40 THEN 3 ELSE IF age < 50 THEN 6
    ELSE IF age < 60 THEN 8 ELSE 10

(* the assessment and the score of a returned result both follow target *)
AssessedAgainst(target) ==
    LET retirement_savings_ratio == result[1].retirement_savings_ratio[1]
    IN  /\ result[1].retirement_status = "Below Target"
               <=> RLt(retirement_savings_ratio, Int2Q(target))
        /\ result[1].retirement_readiness_score =
               Some(Round(RMul(Int2Q(10),
                               RMin(RDiv(retirement_savings_ratio, Int2Q(target)),
                                    One)), 1))
        /\ ~(/\ result[1].retirement_readiness_score = Some(Int2Q(10))
             /\ result[1].retirement_status = "Below Target")

(* a returned result that has an age and a retirement_savings_ratio *)
RetirementAssessed ==
    /\ MetricsReturned
    /\ args[1].profile_data.age # None
    /\ result[1].retirement_savings_ratio # None

(* C25 as claimed: retirement_status and retirement_readiness_score use    *)
(* the same age-banded target (1, 3, 6, 8, 10): the status is 'Below       *)
(* Target' exactly when retirement_savings_ratio is below it, the score is *)
(* 10 * min(ratio / target, 1), and a score of 10 never comes with 'Below  *)
(* Target'.                                                                *)
C25_OneTargetPerAge ==
    RetirementAssessed => AssessedAgainst(AgeBandTarget(args[1].profile_data.age[1]))

(* the part of C25 that holds: ages below 60 *)
C25_OneTargetBelowSixty ==
    (RetirementAssessed /\ args[1].profile_data.age[1] < 60) =>
        AssessedAgainst(AgeBandTarget(args[1].profile_data.age[1]))

(* a 45 year old with savings above the target has been assessed *)
C25_BelowSixtyWitness ==
    /\ RetirementAssessed
    /\ args[1].profile_data.age = Some(45)
    /\ result[1].retirement_readiness_score = Some(Int2Q(10))

(* the savings metrics of a returned result are numbers and assessed *)
SavingsAvailable ==
    /\ result[1].savings_rate # None
    /\ result[1].monthly_savings # None
    /\ result[1].monthly_cash_flow # None
    /\ result[1].savings_status \in {"Below Target", "On Track", "Above Target"}

(* a returned result for a positive monthly_income and a monthly_expenses  *)
(* that is given and not negative                                          *)
IncomeGiven ==
    /\ MetricsReturned
    /\ args[1].profile_data.monthly_income # None
    /\ args[1].profile_data.monthly_income[1] > 0
    /\ args[1].profile_data.monthly_expenses # None
    /\ args[1].profile_data.monthly_expenses[1] >= 0

(* C30 as claimed: whenever monthly_income > 0 and monthly_expenses >= 0,  *)
(* savings_rate, monthly_savings and monthly_cash_flow are numbers and     *)
(* savings_status is 'Below Target', 'On Track' or 'Above Target', also    *)
(* when monthly_expenses is 0 or equals monthly_income.                    *)
C30_SavingsAvailableWithIncome == IncomeGiven => SavingsAvailable

(* the part of C30 that holds: expenses that are neither zero nor the      *)
(* whole income                                                            *)
C30_SavingsAvailableBetween ==
    (IncomeGiven
        /\ args[1].profile_data.monthly_expenses[1] > 0
        /\ args[1].profile_data.monthly_expenses # args[1].profile_data.monthly_income)
    => SavingsAvailable

(* a profile that saves 400 of an income of 1000 has been assessed *)
C30_BetweenWitness ==
    /\ IncomeGiven
    /\ args[1].profile_data.monthly_expenses = Some(600)
    /\ result[1].savings_rate = Some(Int2Q(40))
    /\ result[1].savings_status = "Above Target"

(* the yearly rate at which the call grows the balance *)
GrowthRateOfCall ==
    IF frame[1].fn = WhatIfFn THEN frame[1].real_return_rate
    ELSE frame[1].expected_return_rate

(* the balance after k applications of the recurrence to current_savings *)
BalanceAfter(k) ==
    RecurrenceValue(Dec(args[1].current_savings),
                    RMul(Dec(args[1].monthly_contribution), Int2Q(12)),
                    GrowthRateOfCall, k)

(* the entries of savings_by_year are the balances after 0, 1, ... years   *)
(* and total_savings_at_retirement is the last of them                     *)
TrajectoryEndsAtTotal ==
    LET savings_by_year == result[1].savings_by_year
        years_until_retirement == args[1].retirement_age - args[1].current_age
    IN  /\ \A k \in 0..years_until_retirement :
               /\ k + 1 \in DOMAIN savings_by_year
               /\ savings_by_year[k + 1].amount = ToFloat(BalanceAfter(k))
        /\ result[1].total_savings_at_retirement =
               ToFloat(BalanceAfter(years_until_retirement))
        /\ result[1].total_savings_at_retirement =
               savings_by_year[Len(savings_by_year)].amount

(* C27 as claimed: in every what-if result the k-th entry of               *)
(* savings_by_year, k = 0..years_until_retirement, is the balance after    *)
(* exactly k applications of the growth recurrence to current_savings, and *)
(* total_savings_at_retirement is the amount of the last entry.            *)
C27_TotalIsLastEntry ==
    (WhatIfReturned /\ args[1].retirement_age >= args[1].current_age) =>
        TrajectoryEndsAtTotal

(* the part of C27 that holds: the definition of retirement_functions.py   *)
C27_RoutesDefinitionTotal ==
    (WhatIfReturned /\ frame[1].fn = WhatIfFn
        /\ args[1].retirement_age >= args[1].current_age) => TrajectoryEndsAtTotal

(* that definition has returned a balance grown over two years *)
C27_RoutesWitness ==
    /\ WhatIfReturned
    /\ frame[1].fn = WhatIfFn
    /\ args[1].retirement_age = args[1].current_age + 2
    /\ args[1].monthly_contribution > 0
    /\ frame[1].real_return_rate # Zero

(* the income of a returned result is the sum of its two parts, and the    *)
(* benefits are the flat CPP and OAS estimate or nothing                   *)
IncomeBreakdown ==
    LET breakdown == result[1].monthly_income_breakdown
    IN  /\ WithinRounding(result[1].monthly_retirement_income,
                          RAdd(breakdown.savings_income, breakdown.government_benefits))
        /\ breakdown.government_benefits =
               IF args[1].include_cpp_oas THEN Int2Q(CPP_MONTHLY + OAS_MONTHLY)
               ELSE Zero

(* C28 as claimed: in every what-if result monthly_retirement_income is    *)
(* savings_income + government_benefits, and government_benefits is 0      *)
(* when include_cpp_oas is false and the flat CPP + OAS estimate when it   *)
(* is true.                                                                *)
C28_BenefitsFollowFlag == WhatIfReturned => IncomeBreakdown

(* the part of C28 that holds: the definition of retirement_functions.py   *)
C28_RoutesDefinitionBenefits ==
    (WhatIfReturned /\ frame[1].fn = WhatIfFn) => IncomeBreakdown

(* that definition has returned with benefits and with savings income *)
C28_RoutesWitness ==
    /\ WhatIfReturned
    /\ frame[1].fn = WhatIfFn
    /\ args[1].include_cpp_oas
    /\ result[1].monthly_income_breakdown.savings_income # Zero
    /\ result[1].monthly_income_breakdown.government_benefits # Zero

-----------------------------------------------------------------------------
(* Further properties of calculate_current_retirement_plan, under Spec     *)

(* projected_savings and required_savings of the result of p are the       *)
(* projected assets and the required savings at the result's               *)
(* years_until_retirement                                                  *)
EvaluatedAtReportedYears(p) ==
    LET f == PlanLocals(settings, args[p])
        y == result[p].years_until_retirement
    IN  /\ result[p].projected_savings = ToFloat(ProjectedAssets(f, y))
        /\ result[p].required_savings = ToFloat(RequiredSavings(f, y))

(* C26 as claimed: in every result of calculate_current_retirement_plan,   *)
(* also the one of the age ceiling reached with no feasible age,           *)
(* projected_savings is future_value(cash) + future_savings(principal) and *)
(* required_savings the required total savings, both at the result's       *)
(* years_until_retirement.                                                 *)
C26_ResultAtReportedYears ==
    \A p \in PlanReturned : EvaluatedAtReportedYears(p)

(* the part of C26 that holds: results for a feasible age *)
C26_FeasibleResultAtReportedYears ==
    \A p \in PlanReturned : frame[p].found_retirement_age => EvaluatedAtReportedYears(p)

(* a feasible age was found after a year of growth *)
C26_FeasibleWitness ==
    \E p \in PlanReturned :
        /\ frame[p].found_retirement_age
        /\ result[p].years_until_retirement > 0
        /\ result[p].required_savings # Zero
        /\ result[p].projected_savings # result[p].current_savings

(* the inputs the search assumes: expected_return >= inflation_rate >= 0,  *)
(* annual savings >= 0 and balances that are not negative                  *)
MonotoneInputs(f) ==
    /\ RLeq(Zero, f.inflation_rate)
    /\ RLeq(f.inflation_rate, f.expected_return)
    /\ RLeq(Zero, f.annual_savings)
    /\ RLeq(Zero, f.current_cash)
    /\ RLeq(Zero, f.current_investments)

(* every candidate age after a feasible one is feasible *)
FeasibleFromThenOn(user_data) ==
    \A a \in user_data.profile.age..AGE_CEILING :
        FeasibleAt(user_data, a) =>
            \A b \in (a + 1)..AGE_CEILING : FeasibleAt(user_data, b)

(* C29: for the inputs the search assumes, a feasible candidate age is     *)
(* followed by feasible ages only, up to 90, so the age the search stops   *)
(* at has no infeasible age after it.                                      *)
C29_FeasibilityIsMonotone ==
    \A p \in DOMAIN frame :
        (frame[p].pc # "idle" /\ frame[p].fn = PlanFn /\ MonotoneInputs(frame[p])) =>
            /\ FeasibleFromThenOn(args[p])
            /\ (frame[p].pc = "done" /\ frame[p].found_retirement_age) =>
                   \A b \in frame[p].retirement_age..AGE_CEILING :
                       FeasibleAt(args[p], b)

(* the search has passed an infeasible age and stopped at a feasible one   *)
(* below the ceiling                                                       *)
C29_Witness ==
    \E p \in PlanReturned :
        /\ MonotoneInputs(frame[p])
        /\ frame[p].found_retirement_age
        /\ frame[p].current_age < frame[p].retirement_age
        /\ frame[p].retirement_age < AGE_CEILING
        /\ ~FeasibleAt(args[p], frame[p].current_age)

====
